---- MODULE Spec2Model ----
(***************************************************************************)
(* A model of the core of pbrit/memgraph:                                  *)
(*   - the SLK segment framing (src/src/slk/streams.cpp): Builder, Reader  *)
(*     and CheckStreamComplete;                                            *)
(*   - the worker side of the remote pull protocol                         *)
(*     (src/src/distributed/remote_produce_rpc_server.cpp).                *)
(* Each component has its own specification over the shared variables.     *)
(***************************************************************************)
EXTENDS Integers, Sequences, FiniteSets, TLC

VARIABLES
  builder,   \* slk::Builder: pos_, segment_ and a log of the write_func_ calls
  saved,     \* every payload byte handed to Builder::Save so far, in order
  buf,       \* the byte buffer a Reader / CheckStreamComplete is given
  sealed,    \* the incoming buffer was cut inside a size header: no more input
  reader,    \* slk::Reader: pos_, have_ (data_ is buf, size_ is Len(buf))
  loaded,    \* every byte Reader::Load has copied out so far, in order
  r_last,    \* the last Reader call: what was asked and how it ended
  ongoing_produces_, \* RemoteProduceRpcServer: (tx id, plan id) -> OngoingProduce
  deleted,   \* the vertices no longer visible in the transactional view
  response,  \* the last RemotePull request and its RemotePullResData
  returned,  \* per key, the first terminal pull state that a response to a
             \* request of batch size 1 or more carried
  db_type,   \* db_.type() of the database the RPC server belongs to
  tx_engine_,  \* the server's transaction engine: its running transactions
  remote_data_manager, \* the server's cache of remote elements, per transaction
  master_command,  \* the coordinator's command counter of each transaction
  w_last,    \* the last call handled by the server, and what it did
  handlers,  \* the RPC server's threads, each in a RemotePull handler or idle
  arrival,   \* the threads that took a request, in request-arrival order
  answered,  \* the threads that returned a response, in response order
  coordinator_cache,  \* the coordinator's remote data manager, per transaction
  c_last,    \* the last remote pull response the coordinator processed
  notifications,  \* the calls of NotifyAllTransactionCommandAdvanced: the
                  \* transaction and the futures returned, one per task
  sent,      \* the TransactionCommandAdvancedReq sent so far, and their fate
  crashed,   \* a CHECK failed: the coordinator's process is gone
  index,     \* LabelPropertyIndex: per key, its lifecycle state and entries
  i_last,    \* the last call on the index and what it returned
  accumulated, \* the keys whose ongoing produce has run Accumulate
  FLAGS_snapshot_cycle_sec,  \* the flag, as gflags holds it
  config,    \* database::Config, once constructed
  f_last,    \* the last attempt to set the flag
  storage_,  \* query::Parameters: the (token position, value) pairs added
  p_last,    \* the last call of Parameters::At and how it ended
  bolt,      \* a communication::bolt::Value received from a client
  g_last,    \* the last conversion of bolt and its outcome
  transactions,  \* the transaction engine: state, snapshot, command per id
  version_lists, \* per record, its chain of versions, oldest first
  m_last,    \* the last call on the store, if it was a write, and how it ended
  edge_records,  \* the Edge records of the store, in the order created
  e_last     \* the last call of EdgeAccessor::is_cycle and what it returned

slk_vars == <<builder, saved, buf, sealed, reader, loaded, r_last>>
pull_vars == <<ongoing_produces_, deleted, response, returned,
               db_type, tx_engine_, remote_data_manager, master_command,
               w_last>>
rpc_vars == <<handlers, arrival, answered>>
client_vars == <<coordinator_cache, c_last>>
notify_vars == <<notifications, sent, crashed>>
index_vars == <<index, i_last>>
hist_vars == <<accumulated>>
config_vars == <<FLAGS_snapshot_cycle_sec, config, f_last>>
param_vars == <<storage_, p_last>>
glue_vars == <<bolt, g_last>>
mvcc_vars == <<transactions, version_lists, m_last>>
edge_vars == <<edge_records, e_last>>
more_vars == <<hist_vars, config_vars, param_vars, glue_vars, mvcc_vars,
               edge_vars>>
ext_vars == <<rpc_vars, client_vars, notify_vars, index_vars, more_vars>>
not_slk_vars == <<pull_vars, ext_vars>>
not_pull_vars == <<slk_vars, ext_vars>>
not_rpc_vars == <<slk_vars, client_vars, notify_vars, index_vars, more_vars>>
not_client_vars == <<slk_vars, pull_vars, rpc_vars, notify_vars, index_vars,
                     more_vars>>
not_notify_vars == <<slk_vars, pull_vars, rpc_vars, client_vars, index_vars,
                     more_vars>>
not_index_vars == <<slk_vars, pull_vars, rpc_vars, client_vars, notify_vars,
                    more_vars>>
core_vars == <<slk_vars, pull_vars, rpc_vars, client_vars, notify_vars,
               index_vars, edge_vars>>
not_edge_vars == <<slk_vars, pull_vars, rpc_vars, client_vars, notify_vars,
                   index_vars, hist_vars, config_vars, param_vars, glue_vars,
                   mvcc_vars>>
vars == <<slk_vars, pull_vars, ext_vars>>

(***************************************************************************)
(* Bounds of the model.                                                    *)
(***************************************************************************)
\* The largest payload of one segment (262144 in the program, scaled down).
kSegmentMaxDataSize == 2
\* The most payload bytes saved to one Builder.
MaxPayload == 5
\* The longest data of one Builder::Save call.
MaxSave == 3
\* The longest incoming buffer of the stream-complete check.
MaxBuf == 14
\* The longest incoming buffer a Reader is opened on.
MaxReaderBuf == 10
\* The largest size of one Reader::Load call.
MaxLoad == 3
\* The most rows a plan's cursor produces.
MaxRows == 2
\* The largest batch size of a RemotePull request.
MaxBatch == 2
\* The largest command id a transaction reaches.
MaxCommand == 2
\* The most edges of a path a response returns.
MaxPathEdges == 1
\* The workers of the cluster, beside the coordinator.
MaxWorkers == 2
\* The most calls of NotifyAllTransactionCommandAdvanced.
MaxNotify == 3
\* The largest snapshot cycle tried, beside the default and the limits of
\* int32.
MaxCycleSec == 62
\* The most values added to one Parameters.
MaxParams == 3
\* The deepest nesting of lists and maps in a Bolt value.
MaxDepth == 2
\* The transaction identifiers the engine hands out.
MaxTransactions == 3
\* The versions a chain holds at most.
MaxVersions == 3
\* The most edges the store holds.
MaxEdges == 3

(***************************************************************************)
(* Bytes and the 4-byte little-endian size header.                         *)
(***************************************************************************)
\* sizeof(SegmentSize), SegmentSize being uint32_t.
SegmentSizeBytes == 4

kSegmentMaxTotalSize == kSegmentMaxDataSize + SegmentSizeBytes + SegmentSizeBytes

\* Payload byte values the Builder is given.
PayloadBytes == {97, 98}

\* The payload byte values of incoming buffers, and the size headers they hold.
InputPayloadBytes == {7}
InputSizes == {0, 1, 2, 4, 65537}

\* memcpy(segment_, &size, sizeof(SegmentSize)) on a little-endian machine.
EncodeSize(n) ==
  << n % 256, (n \div 256) % 256, (n \div 65536) % 256, (n \div 16777216) % 256 >>

\* memcpy(&len, data + pos, sizeof(SegmentSize)); pos counts from 0.
DecodeSize(data, pos) ==
  data[pos + 1] + 256 * data[pos + 2] + 65536 * data[pos + 3]
    + 16777216 * data[pos + 4]

SeqsUpTo(S, n) == UNION { [1..k -> S] : k \in 0..n }

Max(S) == CHOOSE x \in S : \A y \in S : y <= x

(***************************************************************************)
(* slk::Builder                                                            *)
(***************************************************************************)
NewBuilder ==
  [ pos |-> 0,            \* pos_
    segment |-> <<>>,     \* the payload bytes in segment_, Len = pos_
    out |-> <<>>,         \* the bytes write_func_ received, concatenated
    written |-> <<>>,     \* one record per write_func_ call
    flush_pos |-> <<>>,   \* pos_ at the return of every flush
    finalize_calls |-> 0, \* calls of Finalize, returned or not
    aborted |-> FALSE ]   \* MG_ASSERT failed: the process is gone

\* Mutant: the final segment is written without the zero footer.
FlushSegment_NoFooter(b, final_segment) ==
  IF ~final_segment /\ b.pos < kSegmentMaxDataSize THEN b
  ELSE IF b.pos = 0 THEN [b EXCEPT !.aborted = TRUE]
  ELSE LET data == EncodeSize(b.pos) \o b.segment
       IN [b EXCEPT !.out = @ \o data,
                    !.written = Append(@, [data |-> data,
                                           have_more |-> ~final_segment]),
                    !.pos = 0,
                    !.segment = <<>>,
                    !.flush_pos = Append(@, 0)]

\* Mutant: no assertion; a final flush with nothing buffered writes the footer.
FlushSegment_EmptyFooter(b, final_segment) ==
  IF ~final_segment /\ b.pos < kSegmentMaxDataSize THEN b
  ELSE LET data == (IF b.pos > 0 THEN EncodeSize(b.pos) \o b.segment ELSE <<>>)
                     \o (IF final_segment THEN EncodeSize(0) ELSE <<>>)
       IN [b EXCEPT !.out = @ \o data,
                    !.written = Append(@, [data |-> data,
                                           have_more |-> ~final_segment]),
                    !.pos = 0,
                    !.segment = <<>>,
                    !.flush_pos = Append(@, 0)]

FlushSegment(b, final_segment) ==
  IF ~final_segment /\ b.pos < kSegmentMaxDataSize THEN b
  ELSE IF b.pos = 0 THEN [b EXCEPT !.aborted = TRUE]
  ELSE LET data == EncodeSize(b.pos) \o b.segment
                     \o (IF final_segment THEN EncodeSize(0) ELSE <<>>)
       IN [b EXCEPT !.out = @ \o data,
                    !.written = Append(@, [data |-> data,
                                           have_more |-> ~final_segment]),
                    !.pos = 0,
                    !.segment = <<>>,
                    !.flush_pos = Append(@, 0)]

RECURSIVE SaveLoop(_, _)
SaveLoop(b, data) ==
  IF Len(data) = 0 \/ b.aborted THEN b
  ELSE LET f == FlushSegment(b, FALSE)
           room == kSegmentMaxDataSize - f.pos
           to_write == IF Len(data) > room THEN room ELSE Len(data)
           w == [f EXCEPT !.segment = @ \o SubSeq(data, 1, to_write),
                          !.pos = @ + to_write]
       IN SaveLoop(w, SubSeq(data, to_write + 1, Len(data)))

\* Mutant: the data is copied whole, not clamped to the room left.
BuilderSave_NoSplit(b, data) ==
  IF Len(data) = 0 THEN b
  ELSE LET f == FlushSegment(b, FALSE)
       IN [f EXCEPT !.segment = @ \o data, !.pos = @ + Len(data)]

BuilderSave(b, data) == SaveLoop(b, data)

BuilderFinalize(b) ==
  FlushSegment([b EXCEPT !.finalize_calls = @ + 1], TRUE)

(***************************************************************************)
(* slk::Reader.  A call that throws SlkReaderException leaves the Reader   *)
(* as the throw found it; err names the exception's message.               *)
(***************************************************************************)
NewReader == [ open |-> FALSE, pos |-> 0, have |-> 0, err |-> "none" ]

\* Mutant: the position moves past the size header before the checks of
\* the segment's size.
GetSegment_MovesEarly(r, data, should_be_final) ==
  IF r.have # 0
  THEN IF should_be_final THEN [r EXCEPT !.err = "leftover"] ELSE r
  ELSE IF r.pos + SegmentSizeBytes > Len(data)
  THEN [r EXCEPT !.err = "size_missing"]
  ELSE LET len == DecodeSize(data, r.pos)
           moved == [r EXCEPT !.pos = @ + SegmentSizeBytes]
       IN IF should_be_final /\ len # 0
          THEN [moved EXCEPT !.err = "nonempty_final"]
          ELSE IF ~should_be_final /\ len = 0
          THEN [moved EXCEPT !.err = "empty_nonfinal"]
          ELSE IF moved.pos + len > Len(data)
          THEN [moved EXCEPT !.err = "not_enough"]
          ELSE [moved EXCEPT !.have = len]

\* Mutant: an empty segment is accepted where payload is expected.
GetSegment_NoEmptyCheck(r, data, should_be_final) ==
  IF r.have # 0
  THEN IF should_be_final THEN [r EXCEPT !.err = "leftover"] ELSE r
  ELSE IF r.pos + SegmentSizeBytes > Len(data)
  THEN [r EXCEPT !.err = "size_missing"]
  ELSE LET len == DecodeSize(data, r.pos)
       IN IF should_be_final /\ len # 0
          THEN [r EXCEPT !.err = "nonempty_final"]
          ELSE IF r.pos + SegmentSizeBytes + len > Len(data)
          THEN [r EXCEPT !.pos = @ + SegmentSizeBytes, !.err = "not_enough"]
          ELSE [r EXCEPT !.pos = @ + SegmentSizeBytes, !.have = len]

GetSegment(r, data, should_be_final) ==
  IF r.have # 0
  THEN IF should_be_final THEN [r EXCEPT !.err = "leftover"] ELSE r
  ELSE IF r.pos + SegmentSizeBytes > Len(data)
  THEN [r EXCEPT !.err = "size_missing"]
  ELSE LET len == DecodeSize(data, r.pos)
       IN IF should_be_final /\ len # 0
          THEN [r EXCEPT !.err = "nonempty_final"]
          ELSE IF ~should_be_final /\ len = 0
          THEN [r EXCEPT !.err = "empty_nonfinal"]
          ELSE IF r.pos + SegmentSizeBytes + len > Len(data)
          THEN [r EXCEPT !.pos = @ + SegmentSizeBytes, !.err = "not_enough"]
          ELSE [r EXCEPT !.pos = @ + SegmentSizeBytes, !.have = len]

\* The loop of Reader::Load: [r |-> the Reader after, out |-> the bytes copied].
RECURSIVE LoadLoop(_, _, _, _)
LoadLoop(r, data, size, out) ==
  IF size = 0 THEN [r |-> r, out |-> out]
  ELSE LET g == GetSegment(r, data, FALSE)
       IN IF g.err # "none" THEN [r |-> g, out |-> out]
          ELSE LET to_read == IF size > g.have THEN g.have ELSE size
                   n == [g EXCEPT !.pos = @ + to_read, !.have = @ - to_read]
               IN LoadLoop(n, data, size - to_read,
                           out \o SubSeq(data, g.pos + 1, g.pos + to_read))

ReaderLoad(r, data, size) == LoadLoop([r EXCEPT !.err = "none"], data, size, <<>>)

ReaderFinalize(r, data) == GetSegment([r EXCEPT !.err = "none"], data, TRUE)

(***************************************************************************)
(* slk::CheckStreamComplete                                                *)
(***************************************************************************)
StreamInfo(status, stream_size, encoded_data_size) ==
  [ status |-> status, stream_size |-> stream_size,
    encoded_data_size |-> encoded_data_size ]

\* Mutant: the hint of a segment whose payload is short counts from the
\* segment's header.
RECURSIVE ScanStream_HintFromHeader(_, _, _, _)
ScanStream_HintFromHeader(data, pos, found_segments, data_size) ==
  IF pos + SegmentSizeBytes > Len(data)
  THEN StreamInfo("PARTIAL", pos + kSegmentMaxTotalSize, data_size)
  ELSE LET len == DecodeSize(data, pos)
           p == pos + SegmentSizeBytes
       IN IF len = 0
          THEN IF found_segments < 1
               THEN StreamInfo("INVALID", 0, 0)
               ELSE StreamInfo("COMPLETE", p, data_size)
          ELSE IF p + len > Len(data)
          THEN StreamInfo("PARTIAL", pos + kSegmentMaxTotalSize, data_size)
          ELSE ScanStream_HintFromHeader(data, p + len, found_segments + 1,
                                         data_size + len)

\* Mutant: the segment's size is counted before the segment is known to be
\* complete.
RECURSIVE ScanStream_CountsEarly(_, _, _, _)
ScanStream_CountsEarly(data, pos, found_segments, data_size) ==
  IF pos + SegmentSizeBytes > Len(data)
  THEN StreamInfo("PARTIAL", pos + kSegmentMaxTotalSize, data_size)
  ELSE LET len == DecodeSize(data, pos)
           p == pos + SegmentSizeBytes
       IN IF len = 0
          THEN IF found_segments < 1
               THEN StreamInfo("INVALID", 0, 0)
               ELSE StreamInfo("COMPLETE", p, data_size)
          ELSE IF p + len > Len(data)
          THEN StreamInfo("PARTIAL", p + kSegmentMaxTotalSize, data_size + len)
          ELSE ScanStream_CountsEarly(data, p + len, found_segments + 1,
                                      data_size + len)

\* Mutant: a complete stream is reported with the size of the buffer.
RECURSIVE ScanStream_SizeOfBuffer(_, _, _, _)
ScanStream_SizeOfBuffer(data, pos, found_segments, data_size) ==
  IF pos + SegmentSizeBytes > Len(data)
  THEN StreamInfo("PARTIAL", pos + kSegmentMaxTotalSize, data_size)
  ELSE LET len == DecodeSize(data, pos)
           p == pos + SegmentSizeBytes
       IN IF len = 0
          THEN IF found_segments < 1
               THEN StreamInfo("INVALID", 0, 0)
               ELSE StreamInfo("COMPLETE", Len(data), data_size)
          ELSE IF p + len > Len(data)
          THEN StreamInfo("PARTIAL", p + kSegmentMaxTotalSize, data_size)
          ELSE ScanStream_SizeOfBuffer(data, p + len, found_segments + 1,
                                       data_size + len)

\* Mutant: the size of a complete stream leaves out the final header.
RECURSIVE ScanStream_TotalBeforeFinal(_, _, _, _)
ScanStream_TotalBeforeFinal(data, pos, found_segments, data_size) ==
  IF pos + SegmentSizeBytes > Len(data)
  THEN StreamInfo("PARTIAL", pos + kSegmentMaxTotalSize, data_size)
  ELSE LET len == DecodeSize(data, pos)
           p == pos + SegmentSizeBytes
       IN IF len = 0
          THEN IF found_segments < 1
               THEN StreamInfo("INVALID", 0, 0)
               ELSE StreamInfo("COMPLETE", pos, data_size)
          ELSE IF p + len > Len(data)
          THEN StreamInfo("PARTIAL", p + kSegmentMaxTotalSize, data_size)
          ELSE ScanStream_TotalBeforeFinal(data, p + len, found_segments + 1,
                                           data_size + len)

RECURSIVE ScanStream(_, _, _, _)
ScanStream(data, pos, found_segments, data_size) ==
  IF pos + SegmentSizeBytes > Len(data)
  THEN StreamInfo("PARTIAL", pos + kSegmentMaxTotalSize, data_size)
  ELSE LET len == DecodeSize(data, pos)
           p == pos + SegmentSizeBytes
       IN IF len = 0
          THEN IF found_segments < 1
               THEN StreamInfo("INVALID", 0, 0)
               ELSE StreamInfo("COMPLETE", p, data_size)
          ELSE IF p + len > Len(data)
          THEN StreamInfo("PARTIAL", p + kSegmentMaxTotalSize, data_size)
          ELSE ScanStream(data, p + len, found_segments + 1, data_size + len)

CheckStreamComplete(data) == ScanStream(data, 0, 0, 0)

(***************************************************************************)
(* The framing's state machine.  The Builder's write_func_ appends to buf; *)
(* a Reader is opened on buf as it stands; incoming buffers are built from *)
(* size headers and payload bytes and may be cut inside a header.          *)
(***************************************************************************)
SlkInit ==
  /\ builder = NewBuilder
  /\ saved = <<>>
  /\ buf = <<>>
  /\ sealed = FALSE
  /\ reader = NewReader
  /\ loaded = <<>>
  /\ r_last = [ op |-> "none", size |-> 0, disturbed_before |-> FALSE,
                loaded_before |-> 0 ]

\* Builder::Save(data, size), on a Builder that serializes one message.
Save ==
  \E data \in SeqsUpTo(PayloadBytes, MaxSave) :
    /\ ~builder.aborted /\ builder.finalize_calls = 0 /\ ~reader.open
    /\ Len(saved) + Len(data) <= MaxPayload
    /\ builder' = BuilderSave(builder, data)
    /\ buf' = builder'.out
    /\ saved' = saved \o data
    /\ UNCHANGED <<sealed, reader, loaded, r_last>>

\* Builder::Finalize(), also on a Builder that was finalized already.
Finalize ==
  /\ ~builder.aborted /\ builder.finalize_calls < 2 /\ ~reader.open
  /\ builder' = BuilderFinalize(builder)
  /\ buf' = builder'.out
  /\ UNCHANGED <<saved, sealed, reader, loaded, r_last>>

\* Bytes arriving from the network: a size header, ...
InputHeader(max) ==
  \E n \in InputSizes :
    /\ ~sealed /\ ~reader.open
    /\ Len(buf) + SegmentSizeBytes <= max
    /\ buf' = buf \o EncodeSize(n)
    /\ UNCHANGED <<builder, saved, sealed, reader, loaded, r_last>>

\* ... a payload byte, ...
InputPayload(max) ==
  \E b \in InputPayloadBytes :
    /\ ~sealed /\ ~reader.open
    /\ Len(buf) + 1 <= max
    /\ buf' = Append(buf, b)
    /\ UNCHANGED <<builder, saved, sealed, reader, loaded, r_last>>

\* ... or the first k bytes of a size header, where the buffer ends.
InputCut(max) ==
  \E n \in InputSizes, k \in 1..(SegmentSizeBytes - 1) :
    /\ ~sealed /\ ~reader.open
    /\ Len(buf) + k <= max
    /\ buf' = buf \o SubSeq(EncodeSize(n), 1, k)
    /\ sealed' = TRUE
    /\ UNCHANGED <<builder, saved, reader, loaded, r_last>>

\* Reader::Reader(data, size) over buf.
ReaderOpen ==
  /\ ~reader.open
  /\ reader' = [NewReader EXCEPT !.open = TRUE]
  /\ UNCHANGED <<builder, saved, buf, sealed, loaded, r_last>>

\* The Reader has thrown, or was finalized: it is past the message.
ReaderDisturbed ==
  r_last.disturbed_before \/ reader.err # "none" \/ r_last.op = "Finalize"

\* Reader::Load(data, size)
Load ==
  \E size \in 0..MaxLoad :
    LET res == ReaderLoad(reader, buf, size)
    IN /\ reader.open
       /\ reader' = res.r
       /\ loaded' = loaded \o res.out
       /\ r_last' = [ op |-> "Load", size |-> size,
                      disturbed_before |-> ReaderDisturbed,
                      loaded_before |-> Len(loaded) ]
       /\ UNCHANGED <<builder, saved, buf, sealed>>

\* Reader::Finalize()
ReadFinalize ==
  /\ reader.open
  /\ reader' = ReaderFinalize(reader, buf)
  /\ r_last' = [ op |-> "Finalize", size |-> 0,
                 disturbed_before |-> ReaderDisturbed,
                 loaded_before |-> Len(loaded) ]
  /\ UNCHANGED <<builder, saved, buf, sealed, loaded>>

(***************************************************************************)
(* The worker side of the remote pull protocol.                            *)
(***************************************************************************)
TxIds == {1, 2}
PlanIds == {1, 2}
Keys == TxIds \X PlanIds

\* The frame positions of the plans' symbol tables, and the pull symbols a
\* request may name.
Symbols == {1, 2}
SymbolLists == { <<1>>, <<2, 1>> }

TerminalStates ==
  { "CURSOR_EXHAUSTED", "SERIALIZATION_ERROR", "LOCK_TIMEOUT_ERROR",
    "UPDATE_DELETED_ERROR", "RECONSTRUCTION_ERROR",
    "UNABLE_TO_DELETE_VERTEX_ERROR", "QUERY_ERROR", "HINTED_ABORT_ERROR" }

\* What a call of cursor_->Pull(frame_, context_) may do besides producing a
\* row: return false, or throw one of the exceptions the operators raise.
CursorEnds ==
  { "false", "SerializationError", "LockTimeoutException",
    "RecordDeletedError", "ReconstructionException",
    "RemoveAttachedVertexException", "QueryRuntimeException",
    "HintedAbortError" }

\* The cursor's behaviour from here on: rows up to its limit-th, then one of
\* `ends`.  A cursor whose end was seen is not asked again.
Scripts(op, ends) ==
  IF op.cursor_state = "CURSOR_IN_PROGRESS"
  THEN [ limit : op.produced..MaxRows, end : ends ]
  ELSE { [ limit |-> op.produced, end |-> "false" ] }

\* The frame after the cursor produced its i-th row: symbol 1 holds the
\* vertex i, symbol 2 an integer.
Row(i) ==
  [ s \in Symbols |->
      IF s = 1 THEN [ type |-> "Vertex", id |-> i ]
               ELSE [ type |-> "Int", id |-> 10 + i ] ]

\* query::ReconstructTypedValue: TRUE when it throws ReconstructionException.
ReconstructThrows(element, del) ==
  element.type = "Vertex" /\ element.id \in del

\* OngoingProduce::OngoingProduce
NewOngoingProduce(parameters, pull_symbols) ==
  [ cursor_state |-> "CURSOR_IN_PROGRESS",  \* cursor_state_
    accumulation |-> <<>>,                  \* accumulation_
    parameters |-> parameters,              \* context_.parameters_
    pull_symbols |-> pull_symbols,          \* pull_symbols_
    produced |-> 0,                         \* the rows cursor_ has produced
    trace |-> <<>> ]                        \* what the current request did

\* Mutant: the handler of RecordDeletedError sets the state of the handler
\* above it.
PullOneFromCursor_WrongCatch(op, script) ==
  IF op.cursor_state # "CURSOR_IN_PROGRESS"
  THEN [ op |-> op, results |-> <<>>, state |-> op.cursor_state ]
  ELSE LET pulled == [op EXCEPT !.trace = Append(@, "cursor")]
           caught(st) == [ op |-> [pulled EXCEPT !.cursor_state = st],
                           results |-> <<>>, state |-> st ]
       IN IF op.produced < script.limit
          THEN [ op |-> [pulled EXCEPT !.produced = @ + 1],
                 results |-> [ i \in 1..Len(op.pull_symbols) |->
                                 Row(op.produced + 1)[op.pull_symbols[i]] ],
                 state |-> "CURSOR_IN_PROGRESS" ]
          ELSE CASE script.end = "false" -> caught("CURSOR_EXHAUSTED")
                 [] script.end = "SerializationError" ->
                      caught("SERIALIZATION_ERROR")
                 [] script.end = "LockTimeoutException" ->
                      caught("LOCK_TIMEOUT_ERROR")
                 [] script.end = "RecordDeletedError" ->
                      caught("LOCK_TIMEOUT_ERROR")
                 [] script.end = "ReconstructionException" ->
                      caught("RECONSTRUCTION_ERROR")
                 [] script.end = "RemoveAttachedVertexException" ->
                      caught("UNABLE_TO_DELETE_VERTEX_ERROR")
                 [] script.end = "QueryRuntimeException" ->
                      caught("QUERY_ERROR")
                 [] script.end = "HintedAbortError" ->
                      caught("HINTED_ABORT_ERROR")

\* Mutant: the cursor is pulled whatever cursor_state_ is.
PullOneFromCursor_NoStateCheck(op, script) ==
  LET pulled == [op EXCEPT !.trace = Append(@, "cursor")]
  IN IF op.produced < script.limit
     THEN [ op |-> [pulled EXCEPT !.produced = @ + 1],
            results |-> [ i \in 1..Len(op.pull_symbols) |->
                            Row(op.produced + 1)[op.pull_symbols[i]] ],
            state |-> "CURSOR_IN_PROGRESS" ]
     ELSE [ op |-> [pulled EXCEPT !.cursor_state = "CURSOR_EXHAUSTED"],
            results |-> <<>>, state |-> "CURSOR_EXHAUSTED" ]

\* OngoingProduce::PullOneFromCursor
PullOneFromCursor(op, script) ==
  IF op.cursor_state # "CURSOR_IN_PROGRESS"
  THEN [ op |-> op, results |-> <<>>, state |-> op.cursor_state ]
  ELSE LET pulled == [op EXCEPT !.trace = Append(@, "cursor")]
           caught(st) == [ op |-> [pulled EXCEPT !.cursor_state = st],
                           results |-> <<>>, state |-> st ]
       IN IF op.produced < script.limit
          THEN [ op |-> [pulled EXCEPT !.produced = @ + 1],
                 results |-> [ i \in 1..Len(op.pull_symbols) |->
                                 Row(op.produced + 1)[op.pull_symbols[i]] ],
                 state |-> "CURSOR_IN_PROGRESS" ]
          ELSE CASE script.end = "false" -> caught("CURSOR_EXHAUSTED")
                 [] script.end = "SerializationError" ->
                      caught("SERIALIZATION_ERROR")
                 [] script.end = "LockTimeoutException" ->
                      caught("LOCK_TIMEOUT_ERROR")
                 [] script.end = "RecordDeletedError" ->
                      caught("UPDATE_DELETED_ERROR")
                 [] script.end = "ReconstructionException" ->
                      caught("RECONSTRUCTION_ERROR")
                 [] script.end = "RemoveAttachedVertexException" ->
                      caught("UNABLE_TO_DELETE_VERTEX_ERROR")
                 [] script.end = "QueryRuntimeException" ->
                      caught("QUERY_ERROR")
                 [] script.end = "HintedAbortError" ->
                      caught("HINTED_ABORT_ERROR")

\* Mutant: one row is buffered and the cursor is reported exhausted.
Accumulate_OneRow(op, script) ==
  LET result == PullOneFromCursor(op, script)
  IN IF result.state # "CURSOR_IN_PROGRESS"
     THEN [ op |-> result.op, state |-> result.state ]
     ELSE [ op |-> [result.op EXCEPT
                      !.accumulation = Append(@, result.results)],
            state |-> "CURSOR_EXHAUSTED" ]

\* OngoingProduce::Accumulate: [op, state]
RECURSIVE AccumulateLoop(_, _)
AccumulateLoop(op, script) ==
  LET result == PullOneFromCursor(op, script)
  IN IF result.state # "CURSOR_IN_PROGRESS"
     THEN [ op |-> result.op, state |-> result.state ]
     ELSE AccumulateLoop(
            [result.op EXCEPT !.accumulation = Append(@, result.results)],
            script)

Accumulate(op, script) == AccumulateLoop(op, script)

\* Mutant: a buffered frame is returned without reconstructing it.
Pull_IgnoresReconstruction(op, script, del) ==
  IF op.accumulation # <<>>
  THEN LET n == Len(op.accumulation)
       IN [ op |-> [op EXCEPT !.accumulation = SubSeq(@, 1, n - 1),
                             !.trace = Append(@, "buffer")],
            results |-> op.accumulation[n],
            state |-> "CURSOR_IN_PROGRESS" ]
  ELSE PullOneFromCursor(op, script)

\* Mutant: the buffered frames are returned oldest first.
Pull_OldestFirst(op, script, del) ==
  IF op.accumulation # <<>>
  THEN LET results == Head(op.accumulation)
           popped == [op EXCEPT !.accumulation = Tail(@),
                                !.trace = Append(@, "buffer")]
       IN IF \E i \in 1..Len(results) : ReconstructThrows(results[i], del)
          THEN [ op |-> [popped EXCEPT
                           !.cursor_state = "RECONSTRUCTION_ERROR",
                           !.trace = Append(@, "reconstruct_failed")],
                 results |-> results,
                 state |-> "RECONSTRUCTION_ERROR" ]
          ELSE [ op |-> popped, results |-> results,
                 state |-> "CURSOR_IN_PROGRESS" ]
  ELSE PullOneFromCursor(op, script)

\* OngoingProduce::Pull
Pull(op, script, del) ==
  IF op.accumulation # <<>>
  THEN LET n == Len(op.accumulation)
           results == op.accumulation[n]
           popped == [op EXCEPT !.accumulation = SubSeq(@, 1, n - 1),
                                !.trace = Append(@, "buffer")]
       IN IF \E i \in 1..Len(results) : ReconstructThrows(results[i], del)
          THEN [ op |-> [popped EXCEPT
                           !.cursor_state = "RECONSTRUCTION_ERROR",
                           !.trace = Append(@, "reconstruct_failed")],
                 results |-> results,
                 state |-> "RECONSTRUCTION_ERROR" ]
          ELSE [ op |-> popped, results |-> results,
                 state |-> "CURSOR_IN_PROGRESS" ]
  ELSE PullOneFromCursor(op, script)

\* The snapshots a request may carry: the transactions active at its start.
Snapshots == SUBSET {1}

\* tx::WorkerEngine::RunningTransaction(tx_id, snapshot): the engine after.
\* A transaction the engine knows is left as it is.
RunningTransaction(engine, tx_id, snapshot) ==
  IF tx_id \in DOMAIN engine THEN engine
  ELSE (tx_id :> [ snapshot |-> snapshot, cid |-> 1 ]) @@ engine

\* GraphDbAccessor(db, tx_id), the dba_ of a new OngoingProduce: it looks the
\* transaction up in the engine.
NewAccessor(engine, tx_id) ==
  [ tx_id |-> tx_id, known |-> tx_id \in DOMAIN engine ]

\* Mutant: the lookup is skipped; every request gets a new OngoingProduce.
GetOngoingProduce_AlwaysNew(ops, engine, type, req) ==
  LET key_pair == <<req.tx_id, req.plan_id>>
      e == IF type = "DISTRIBUTED_WORKER"
           THEN RunningTransaction(engine, req.tx_id, req.tx_snapshot)
           ELSE engine
  IN [ ops |-> (key_pair :> NewOngoingProduce(req.params, req.symbols))
                 @@ ops,
       engine |-> e, constructed |-> TRUE,
       dba |-> NewAccessor(e, req.tx_id) ]

\* Mutant: the transaction is registered after the OngoingProduce is made.
GetOngoingProduce_RegistersLate(ops, engine, type, req) ==
  LET key_pair == <<req.tx_id, req.plan_id>>
  IN IF key_pair \in DOMAIN ops
     THEN [ ops |-> ops, engine |-> engine, constructed |-> FALSE,
            dba |-> NewAccessor(engine, req.tx_id) ]
     ELSE [ ops |-> (key_pair :> NewOngoingProduce(req.params, req.symbols))
                     @@ ops,
            engine |-> IF type = "DISTRIBUTED_WORKER"
                       THEN RunningTransaction(engine, req.tx_id,
                                               req.tx_snapshot)
                       ELSE engine,
            constructed |-> TRUE,
            dba |-> NewAccessor(engine, req.tx_id) ]

\* Mutant: an ongoing produce that is found takes the parameters and the
\* pull symbols of the request.
GetOngoingProduce_TakesLatest(ops, engine, type, req) ==
  LET key_pair == <<req.tx_id, req.plan_id>>
  IN IF key_pair \in DOMAIN ops
     THEN [ ops |-> [ops EXCEPT ![key_pair].parameters = req.params,
                                ![key_pair].pull_symbols = req.symbols],
            engine |-> engine, constructed |-> FALSE,
            dba |-> NewAccessor(engine, req.tx_id) ]
     ELSE LET e == IF type = "DISTRIBUTED_WORKER"
                   THEN RunningTransaction(engine, req.tx_id, req.tx_snapshot)
                   ELSE engine
          IN [ ops |-> (key_pair :> NewOngoingProduce(req.params, req.symbols))
                         @@ ops,
               engine |-> e, constructed |-> TRUE,
               dba |-> NewAccessor(e, req.tx_id) ]

\* RemoteProduceRpcServer::GetOngoingProduce: the map and the engine after
\* the call, whether it constructed the OngoingProduce, and the accessor the
\* cursor was constructed over.
GetOngoingProduce(ops, engine, type, req) ==
  LET key_pair == <<req.tx_id, req.plan_id>>
  IN IF key_pair \in DOMAIN ops
     THEN [ ops |-> ops, engine |-> engine, constructed |-> FALSE,
            dba |-> NewAccessor(engine, req.tx_id) ]
     ELSE LET e == IF type = "DISTRIBUTED_WORKER"
                   THEN RunningTransaction(engine, req.tx_id, req.tx_snapshot)
                   ELSE engine
          IN [ ops |-> (key_pair :> NewOngoingProduce(req.params, req.symbols))
                 @@ ops,
               engine |-> e, constructed |-> TRUE,
               dba |-> NewAccessor(e, req.tx_id) ]

\* Mutant: the loop runs while i <= batch_size.
RECURSIVE BatchLoop_OneMore(_, _, _, _, _, _)
BatchLoop_OneMore(op, script, del, i, batch_size, res) ==
  IF ~(i <= batch_size) THEN [res EXCEPT !.op = op]
  ELSE LET pull_result == Pull(op, script, del)
       IN IF pull_result.state # "CURSOR_IN_PROGRESS"
          THEN [res EXCEPT !.op = pull_result.op,
                           !.pull_state = pull_result.state]
          ELSE BatchLoop_OneMore(
                 [pull_result.op EXCEPT !.trace = Append(@, "emit")],
                 script, del, i + 1, batch_size,
                 [res EXCEPT !.pull_state = pull_result.state,
                             !.frames = Append(@, pull_result.results)])

\* Mutant: the state of a Pull is kept only with the frame it returned.
RECURSIVE BatchLoop_KeepsState(_, _, _, _, _, _)
BatchLoop_KeepsState(op, script, del, i, batch_size, res) ==
  IF ~(i < batch_size) THEN [res EXCEPT !.op = op]
  ELSE LET pull_result == Pull(op, script, del)
       IN IF pull_result.state # "CURSOR_IN_PROGRESS"
          THEN [res EXCEPT !.op = pull_result.op]
          ELSE BatchLoop_KeepsState(
                 [pull_result.op EXCEPT !.trace = Append(@, "emit")],
                 script, del, i + 1, batch_size,
                 [res EXCEPT !.pull_state = pull_result.state,
                             !.frames = Append(@, pull_result.results)])

\* The loop of RemotePull: at most batch_size calls of Pull.
RECURSIVE BatchLoop(_, _, _, _, _, _)
BatchLoop(op, script, del, i, batch_size, res) ==
  IF ~(i < batch_size) THEN [res EXCEPT !.op = op]
  ELSE LET pull_result == Pull(op, script, del)
       IN IF pull_result.state # "CURSOR_IN_PROGRESS"
          THEN [res EXCEPT !.op = pull_result.op,
                           !.pull_state = pull_result.state]
          ELSE BatchLoop(
                 [pull_result.op EXCEPT !.trace = Append(@, "emit")],
                 script, del, i + 1, batch_size,
                 [res EXCEPT !.pull_state = pull_result.state,
                             !.frames = Append(@, pull_result.results)])

\* RemoteProduceRpcServer::RemotePull on the ongoing produce of the request:
\* [op, pull_state, frames], with what Accumulate returned and how many
\* steps of the trace it took.
RemotePull(op, req, script, del) ==
  LET acc == IF req.accumulate THEN Accumulate(op, script)
             ELSE [ op |-> op, state |-> "none" ]
      res == [ op |-> acc.op, pull_state |-> "CURSOR_IN_PROGRESS",
               frames |-> <<>>, acc_state |-> acc.state,
               acc_len |-> Len(acc.op.trace) ]
  IN IF req.accumulate /\ acc.state # "CURSOR_EXHAUSTED"
     THEN [res EXCEPT !.pull_state = acc.state]
     ELSE BatchLoop(acc.op, script, del, 0, req.batch_size,
                    IF req.accumulate
                    THEN [res EXCEPT !.pull_state = acc.state] ELSE res)

Requests(txs, plans) ==
  [ tx_id : txs, plan_id : plans, tx_snapshot : { {} }, params : {1},
    symbols : SymbolLists,
    accumulate : BOOLEAN, batch_size : 0..MaxBatch ]

NoResponse ==
  [ valid |-> FALSE, key |-> <<0, 0>>, accumulate |-> FALSE, batch_size |-> 0,
    pull_symbols |-> <<>>, pull_state |-> "CURSOR_IN_PROGRESS",
    frames |-> <<>>, trace |-> <<>>, acc_state |-> "none", acc_len |-> 0,
    cursor_state |-> "CURSOR_IN_PROGRESS", prior |-> "none",
    buffered_before |-> 0, view_deleted |-> {}, thrown |-> "none" ]

\* What w_last says of a call: the operation, its argument (a request's key,
\* a transaction id), and what the call did.
LastCall(op, arg) ==
  [ op |-> op, arg |-> arg,
    snapshot |-> {},            \* RemotePull: the request's tx_snapshot
    params |-> 0,               \* ... its parameters
    symbols |-> << >>,          \* ... its pull symbols
    constructed |-> FALSE,      \* RemotePull: an OngoingProduce was made
    dba_known |-> FALSE,        \* ... over a transaction the engine knew
    removed |-> {},             \* ClearTransactionalCache: the keys removed
    purged |-> {},              \* TransactionCommandAdvanced: what it purged
    steps |-> << >> ]           \* the calls the handler made, in order

\* The server of a worker, no request handled yet.
ServerInit(type) ==
  /\ ongoing_produces_ = << >>
  /\ deleted = {}
  /\ response = NoResponse
  /\ returned = [ k \in Keys |-> "none" ]
  /\ db_type = type
  /\ tx_engine_ = << >>
  /\ remote_data_manager = [ t \in TxIds |-> {} ]
  /\ master_command = [ t \in TxIds |-> 1 ]
  /\ w_last = LastCall("none", 0)

PullInit == ServerInit("DISTRIBUTED_WORKER")

\* The RemotePullRpc handler, for the requests `reqs` over plans whose
\* cursors end in one of `ends`; w_last keeps the call when `logged`.
RemotePullRpcOf(reqs, ends, logged) ==
  \E req \in reqs :
    LET key == <<req.tx_id, req.plan_id>>
        got == GetOngoingProduce(ongoing_produces_, tx_engine_, db_type, req)
        ops == got.ops
    IN \E script \in Scripts(ops[key], ends) :
         LET res == RemotePull(ops[key], req, script, deleted)
         IN /\ tx_engine_' = got.engine
            /\ w_last' = IF logged
                         THEN [LastCall("RemotePull", key)
                                 EXCEPT !.snapshot = req.tx_snapshot,
                                        !.params = req.params,
                                        !.symbols = req.symbols,
                                        !.constructed = got.constructed,
                                        !.dba_known = got.dba.known]
                         ELSE w_last
            /\ UNCHANGED <<db_type, remote_data_manager, master_command>>
            /\ ongoing_produces_' = [ops EXCEPT ![key] =
                                       [res.op EXCEPT !.trace = <<>>]]
            /\ response' =
                 [ valid |-> TRUE, key |-> key,
                   accumulate |-> req.accumulate,
                   batch_size |-> req.batch_size,
                   pull_symbols |-> res.op.pull_symbols,
                   pull_state |-> res.pull_state,
                   frames |-> res.frames,
                   trace |-> res.op.trace,
                   acc_state |-> res.acc_state,
                   acc_len |-> res.acc_len,
                   cursor_state |-> res.op.cursor_state,
                   prior |-> returned[key],
                   buffered_before |-> Len(ops[key].accumulation),
                   view_deleted |-> deleted,
                   thrown |->
                     IF ops[key].cursor_state = "CURSOR_IN_PROGRESS"
                        /\ res.op.cursor_state # "CURSOR_IN_PROGRESS"
                        /\ res.op.produced = script.limit
                     THEN script.end ELSE "none" ]
            /\ returned' =
                 IF returned[key] = "none" /\ req.batch_size > 0
                    /\ res.pull_state # "CURSOR_IN_PROGRESS"
                 THEN [returned EXCEPT ![key] = res.pull_state]
                 ELSE returned
            /\ UNCHANGED deleted

RemotePullRpc(txs, plans) ==
  RemotePullRpcOf(Requests(txs, plans), CursorEnds, FALSE)

\* The oldest-active transaction ids the coordinator publishes.
OldestActives == TxIds \cup { Max(TxIds) + 1 }

\* Mutant: the entries of the oldest active transaction are removed as well.
ClearTransactionalCache_Inclusive(ops, oldest_active) ==
  [ k \in { kv \in DOMAIN ops : ~(kv[1] <= oldest_active) } |-> ops[k] ]

\* RemoteProduceRpcServer::ClearTransactionalCache: the map after the call.
ClearTransactionalCache(ops, oldest_active) ==
  [ k \in { kv \in DOMAIN ops : ~(kv[1] < oldest_active) } |-> ops[k] ]

\* The cache cleaner calls ClearTransactionalCache(oldest_active).
ClearCache ==
  \E oldest_active \in OldestActives :
    LET ops == ClearTransactionalCache(ongoing_produces_, oldest_active)
    IN /\ ongoing_produces_' = ops
       /\ w_last' = [LastCall("ClearTransactionalCache", oldest_active)
                        EXCEPT !.removed = DOMAIN ongoing_produces_ \ DOMAIN ops]
       /\ UNCHANGED <<deleted, response, returned, db_type, tx_engine_,
                      remote_data_manager, master_command>>

\* The local ids of the elements that live on other workers.
Gids == {1, 2}

\* tx::WorkerEngine::UpdateCommand(tx_id): the engine after.  The worker
\* asks the coordinator for the transaction's command id (`command`) and
\* sets its own copy of the transaction, when it has one, to it.
UpdateCommand(engine, tx_id, command) ==
  IF tx_id \in DOMAIN engine THEN [engine EXCEPT ![tx_id].cid = command]
  ELSE engine

\* RemoteDataManager::ClearCacheForSingleTransaction(tx_id): the caches after.
ClearCacheForSingleTransaction(caches, tx_id) ==
  [caches EXCEPT ![tx_id] = {}]

\* Mutant: the cache of the transaction is not cleared.
TransactionCommandAdvanced_KeepsCache(engine, caches, member, command) ==
  [ engine |-> UpdateCommand(engine, member, command),
    caches |-> caches,
    steps |-> << "UpdateCommand", "Res" >> ]

\* The TransactionCommandAdvancedRpc handler: the engine and the caches
\* after it, and the calls it made up to its response.
TransactionCommandAdvanced(engine, caches, member, command) ==
  LET updated == UpdateCommand(engine, member, command)
      cleared == ClearCacheForSingleTransaction(caches, member)
  IN [ engine |-> updated, caches |-> cleared,
       steps |-> << "UpdateCommand", "ClearCacheForSingleTransaction",
                    "Res" >> ]

\* A TransactionCommandAdvancedReq for a transaction arrives and is handled.
TransactionCommandAdvancedRpc ==
  \E member \in TxIds :
    LET res == TransactionCommandAdvanced(tx_engine_, remote_data_manager,
                                          member, master_command[member])
    IN /\ tx_engine_' = res.engine
       /\ remote_data_manager' = res.caches
       /\ w_last' = [LastCall("TransactionCommandAdvanced", member)
                        EXCEPT !.steps = res.steps,
                               !.purged = remote_data_manager[member]
                                            \ res.caches[member]]
       /\ UNCHANGED <<ongoing_produces_, deleted, response, returned,
                      db_type, master_command>>

\* The coordinator advances the command of a transaction (spec 4.2,
\* advance(T)); the notification of the workers follows.
AdvanceCommand ==
  \E t \in TxIds :
    /\ master_command[t] < MaxCommand
    /\ master_command' = [master_command EXCEPT ![t] = @ + 1]
    /\ w_last' = LastCall("AdvanceCommand", t)
    /\ UNCHANGED <<ongoing_produces_, deleted, response, returned, db_type,
                   tx_engine_, remote_data_manager>>

\* A cursor of the worker reads an element of another worker in a
\* transaction it runs: the element is cached for the transaction.
CacheRemoteElement ==
  \E t \in DOMAIN tx_engine_, gid \in Gids :
    /\ gid \notin remote_data_manager[t]
    /\ remote_data_manager' = [remote_data_manager EXCEPT ![t] = @ \cup {gid}]
    /\ w_last' = LastCall("CacheRemoteElement", t)
    /\ UNCHANGED <<ongoing_produces_, deleted, response, returned, db_type,
                   tx_engine_, master_command>>

(***************************************************************************)
(* The RemotePull handler on the threads of the RPC server.  Each thread   *)
(* runs the handler's code; the threads share ongoing_produces_.  A thread *)
(* is at "get" before GetOngoingProduce, at "loop" in the for loop over    *)
(* the OngoingProduce it got, at "return" when it has its result.          *)
(***************************************************************************)
Threads == {1, 2}

IdleHandler ==
  [ pc |-> "idle", key |-> <<0, 0>>, batch_size |-> 0, i |-> 0,
    pull_state |-> "CURSOR_IN_PROGRESS", frames |-> <<>> ]

RpcInit ==
  /\ handlers = [ h \in Threads |-> IdleHandler ]
  /\ arrival = <<>>
  /\ answered = <<>>

\* A RemotePullReq arrives and an idle thread takes it.
HandlerReceive(h) ==
  \E req \in Requests({1}, PlanIds) :
    /\ handlers[h].pc = "idle" /\ ~req.accumulate /\ req.batch_size >= 1
    /\ req.symbols = <<1>>
    /\ handlers' = [handlers EXCEPT ![h] =
                      [IdleHandler EXCEPT !.pc = "get",
                                          !.key = <<req.tx_id, req.plan_id>>,
                                          !.batch_size = req.batch_size]]
    /\ arrival' = Append(arrival, h)
    /\ UNCHANGED <<answered, pull_vars>>

\* auto &ongoing_produce = GetOngoingProduce(req), and the result's
\* construction.
HandlerGet(h) ==
  LET me == handlers[h]
      req == [ tx_id |-> me.key[1], plan_id |-> me.key[2], tx_snapshot |-> {},
               params |-> 1,
               symbols |-> <<1>> ]
      got == GetOngoingProduce(ongoing_produces_, tx_engine_, db_type, req)
  IN /\ me.pc = "get"
     /\ ongoing_produces_' = got.ops
     /\ tx_engine_' = got.engine
     /\ handlers' = [handlers EXCEPT ![h].pc = "loop"]
     /\ UNCHANGED <<arrival, answered, deleted, response, returned, db_type,
                    remote_data_manager, master_command, w_last>>

\* One turn of the for loop: the test of i, ongoing_produce.Pull(), and the
\* break or the emplace_back.
HandlerPull(h) ==
  LET me == handlers[h]
      op == ongoing_produces_[me.key]
  IN /\ me.pc = "loop"
     /\ IF ~(me.i < me.batch_size)
        THEN /\ handlers' = [handlers EXCEPT ![h].pc = "return"]
             /\ UNCHANGED ongoing_produces_
        ELSE \E script \in Scripts(op, {"false"}) :
               LET pull_result == Pull(op, script, deleted)
               IN /\ ongoing_produces_' =
                       [ongoing_produces_ EXCEPT ![me.key] =
                          [pull_result.op EXCEPT !.trace = <<>>]]
                  /\ handlers' = [handlers EXCEPT ![h] =
                       IF pull_result.state # "CURSOR_IN_PROGRESS"
                       THEN [me EXCEPT !.pull_state = pull_result.state,
                                       !.pc = "return"]
                       ELSE [me EXCEPT !.pull_state = pull_result.state,
                                       !.frames = Append(@, pull_result.results),
                                       !.i = @ + 1]]
     /\ UNCHANGED <<arrival, answered, deleted, response, returned, db_type,
                    tx_engine_, remote_data_manager, master_command, w_last>>

\* return result: the response leaves the server.
HandlerReturn(h) ==
  /\ handlers[h].pc = "return"
  /\ handlers' = [handlers EXCEPT ![h].pc = "done"]
  /\ answered' = Append(answered, h)
  /\ UNCHANGED <<arrival, pull_vars>>

\* Another transaction deletes vertex v and commits, and the view advances.
DeleteVertex ==
  \E v \in 1..MaxRows :
    /\ v \notin deleted
    /\ deleted' = deleted \cup {v}
    /\ UNCHANGED <<ongoing_produces_, response, returned, db_type,
                   tx_engine_, remote_data_manager, master_command, w_last>>

(***************************************************************************)
(* The coordinator's side of a remote pull: RemotePullRpcClients.  The     *)
(* response carries, beside the frames, the vertices, edges and paths the  *)
(* frames refer to; element_in_frame is the frame slot that refers to an   *)
(* element (0 for nullptr).                                                *)
(***************************************************************************)
\* The worker that answers, and the frame slots of its response: a vertex,
\* an edge and a path.
RemoteWorker == 1
VertexSlot == 1
EdgeSlot == 2
PathSlot == 3
FrameSlots == { VertexSlot, EdgeSlot, PathSlot }

GlobalAddress(gid) == [ gid |-> gid, worker_id |-> RemoteWorker ]

\* An element of the response: its address, its records, its frame slot.
Element(gid, slot) ==
  [ global_address |-> GlobalAddress(gid),
    old_record |-> [ of |-> gid, version |-> "old" ],
    new_record |-> [ of |-> gid, version |-> "new" ],
    element_in_frame |-> slot ]

\* The paths a response may carry: n edges and n + 1 vertices, no element
\* of which has a frame slot of its own.
PathsOf(n) ==
  { [ vertices |-> [ i \in 1..(n + 1) |-> Element(vs[i], 0) ],
      edges |-> [ i \in 1..n |-> Element(es[i], 0) ] ] :
      vs \in [1..(n + 1) -> Gids], es \in [1..n -> Gids] }

\* result->data of a response: at most one vertex and one edge, each in its
\* frame slot (gids are interchangeable: the vertex and the edge of gid 1),
\* and at most one path.
ResponseData ==
  [ vertices : { <<>>, << Element(1, VertexSlot) >> },
    edges : { <<>>, << Element(1, EdgeSlot) >> },
    paths : { <<>> } \cup { << p >> :
                              p \in UNION { PathsOf(n) : n \in 0..MaxPathEdges } } ]

\* The records of an element at two commands of the transaction: what a
\* response sends as (old_record, new_record) before and after an update.
RecordVersions == { << "old", "new" >>, << "new", "newer" >> }

\* An element that is sent with the records `versions`.
VersionedElement(gid, slot, versions) ==
  [ global_address |-> GlobalAddress(gid),
    old_record |-> [ of |-> gid, version |-> versions[1] ],
    new_record |-> [ of |-> gid, version |-> versions[2] ],
    element_in_frame |-> slot ]

\* result->data of responses that return elements again: at most two
\* vertices and one edge, of any gid, with the records of either command.
VersionedData ==
  LET vertices == { VersionedElement(g, VertexSlot, v) :
                      g \in Gids, v \in RecordVersions }
      edges == { VersionedElement(g, EdgeSlot, v) :
                   g \in Gids, v \in RecordVersions }
  IN [ vertices : { <<>> } \cup { << x >> : x \in vertices }
                    \cup { << x, y >> : x \in vertices, y \in vertices },
       edges : { <<>> } \cup { << x >> : x \in edges },
       paths : { <<>> } ]

\* The frame as deserialized: a slot an element refers to is still to be set.
ReceivedFrame == [ sl \in FrameSlots |-> [ type |-> "Unset" ] ]

VertexAccessor(address, dba) ==
  [ type |-> "Vertex", address |-> address, dba |-> dba ]

EdgeAccessor(address, dba) ==
  [ type |-> "Edge", address |-> address, dba |-> dba ]

\* Mutant: the entry under gid is assigned the records of the element.
Emplace_Overwrites(elements, e) ==
  (e.global_address.gid :> [ old |-> e.old_record, new |-> e.new_record ])
    @@ elements

\* Elements<T>(tx_id).emplace(gid, old, new): an entry under gid stays.
Emplace(elements, e) ==
  IF e.global_address.gid \in DOMAIN elements THEN elements
  ELSE (e.global_address.gid :>
          [ old |-> e.old_record, new |-> e.new_record ]) @@ elements

\* handle_vertex, on st = [Vertex, Edge: the transaction's caches, frame].
HandleVertex(st, v, dba) ==
  LET cached == [st EXCEPT !.Vertex = Emplace(@, v)]
  IN IF v.element_in_frame # 0
     THEN [cached EXCEPT !.frame[v.element_in_frame] =
                            VertexAccessor(v.global_address, dba)]
     ELSE cached

\* handle_edge
HandleEdge(st, e, dba) ==
  LET cached == [st EXCEPT !.Edge = Emplace(@, e)]
  IN IF e.element_in_frame # 0
     THEN [cached EXCEPT !.frame[e.element_in_frame] =
                            EdgeAccessor(e.global_address, dba)]
     ELSE cached

\* Mutant: the vertices a path expands to are put in the path, not in the
\* cache.
RECURSIVE ExpandPath_SkipsVertices(_, _, _, _)
ExpandPath_SkipsVertices(st, p, dba, i) ==
  IF i > Len(p.edges) THEN st
  ELSE LET e == HandleEdge(st, p.edges[i], dba)
           path == e.frame[PathSlot].path
                     \o << EdgeAccessor(p.edges[i].global_address, dba),
                           VertexAccessor(p.vertices[i + 1].global_address,
                                          dba) >>
       IN ExpandPath_SkipsVertices([e EXCEPT !.frame[PathSlot].path = path],
                                   p, dba, i + 1)

\* The loop over the edges of a path: the i-th edge and the vertex after it
\* are handled and the path in the frame is expanded by them.
RECURSIVE ExpandPath(_, _, _, _)
ExpandPath(st, p, dba, i) ==
  IF i > Len(p.edges) THEN st
  ELSE LET e == HandleEdge(st, p.edges[i], dba)
           v == HandleVertex(e, p.vertices[i + 1], dba)
           path == v.frame[PathSlot].path
                     \o << EdgeAccessor(p.edges[i].global_address, dba),
                           VertexAccessor(p.vertices[i + 1].global_address,
                                          dba) >>
       IN ExpandPath([v EXCEPT !.frame[PathSlot].path = path], p, dba, i + 1)

\* The body of the loop over the paths.
HandlePath(st, p, dba) ==
  LET first == HandleVertex(st, p.vertices[1], dba)
      started == [first EXCEPT !.frame[PathSlot] =
                    [ type |-> "Path",
                      path |-> << VertexAccessor(
                                    p.vertices[1].global_address, dba) >> ]]
  IN ExpandPath(started, p, dba, 1)

\* for (auto &x : xs) handle(x), for the vertices, the edges and the paths.
RECURSIVE HandleAll(_, _, _, _)
HandleAll(st, xs, dba, kind) ==
  IF xs = <<>> THEN st
  ELSE HandleAll(CASE kind = "vertices" -> HandleVertex(st, Head(xs), dba)
                   [] kind = "edges" -> HandleEdge(st, Head(xs), dba)
                   [] kind = "paths" -> HandlePath(st, Head(xs), dba),
                 Tail(xs), dba, kind)

\* The lambda of RemotePullRpcClients::RemotePull, after the call returned
\* `data`: the caches of the transaction and the frame after it.
ProcessResponse(caches, data, dba) ==
  LET st == [ Vertex |-> caches.Vertex, Edge |-> caches.Edge,
              frame |-> ReceivedFrame ]
      vs == HandleAll(st, data.vertices, dba, "vertices")
      es == HandleAll(vs, data.edges, dba, "edges")
  IN HandleAll(es, data.paths, dba, "paths")

ClientInit ==
  /\ coordinator_cache = [ t \in TxIds |-> [ Vertex |-> << >>, Edge |-> << >> ] ]
  /\ c_last = [ valid |-> FALSE, tx |-> 0, data |-> << >>, frame |-> << >>,
                cached_before |-> {} ]

\* The coordinator pulls from the worker in transaction 1 and processes the
\* response, one of `datas`.
ClientRemotePullOf(datas) ==
  \E data \in datas :
    LET tx == 1
        dba == [ transaction_id |-> tx ]
        st == ProcessResponse(coordinator_cache[tx], data, dba)
    IN /\ coordinator_cache' = [coordinator_cache EXCEPT ![tx] =
                                  [ Vertex |-> st.Vertex, Edge |-> st.Edge ]]
       /\ c_last' = [ valid |-> TRUE, tx |-> tx, data |-> data,
                      frame |-> st.frame,
                      cached_before |->
                        DOMAIN coordinator_cache[tx].Vertex
                          \cup DOMAIN coordinator_cache[tx].Edge ]

ClientRemotePull == ClientRemotePullOf(ResponseData)

\* The transaction's command advances or the transaction ends: its entries
\* are purged.
ClientPurge ==
  \E tx \in TxIds :
    /\ coordinator_cache[tx] # [ Vertex |-> << >>, Edge |-> << >> ]
    /\ coordinator_cache' = [coordinator_cache EXCEPT ![tx] =
                               [ Vertex |-> << >>, Edge |-> << >> ]]
    /\ c_last' = [c_last EXCEPT !.valid = FALSE]

(***************************************************************************)
(* RemotePullRpcClients::NotifyAllTransactionCommandAdvanced.              *)
(***************************************************************************)
\* The worker id of the coordinator, which ExecuteOnWorkers is told to skip.
MasterWorkerId == 0

\* The worker ids of the cluster: the coordinator and the workers.
WorkerIds == MasterWorkerId..MaxWorkers

\* RpcWorkerClients::ExecuteOnWorkers(skip_worker_id, execute): one task and
\* one future per worker id other than skip_worker_id.
ExecuteOnWorkers(skip_worker_id) ==
  [ w \in WorkerIds \ {skip_worker_id} |-> "pending" ]

\* NotifyAllTransactionCommandAdvanced(tx_id): the futures it returns.
NotifyAllTransactionCommandAdvanced(tx_id) ==
  [ tx_id |-> tx_id, futures |-> ExecuteOnWorkers(MasterWorkerId) ]

\* Mutant: a call without response is passed over.
AfterCall_NoCheck(res) == "ready"

\* The task after client.Call returned res: CHECK(res), then the future is
\* ready.
AfterCall(res) == IF res THEN "ready" ELSE "check_failed"

NotifyInit ==
  /\ notifications = <<>>
  /\ sent = {}
  /\ crashed = FALSE

\* The coordinator has advanced the command of a transaction and notifies;
\* it has waited for the futures of the notification before.
Notify ==
  \E tx_id \in TxIds :
    /\ ~crashed /\ Len(notifications) < MaxNotify
    /\ \A n \in 1..Len(notifications) :
         \A w \in DOMAIN notifications[n].futures :
           notifications[n].futures[w] = "ready"
    /\ notifications' = Append(notifications,
                               NotifyAllTransactionCommandAdvanced(tx_id))
    /\ UNCHANGED <<sent, crashed>>

\* The task of worker w runs: client.Call<TransactionCommandAdvancedRpc>(tx_id)
\* sends the request.
NotifyCall ==
  \E n \in 1..Len(notifications) :
    \E w \in DOMAIN notifications[n].futures :
      /\ ~crashed /\ notifications[n].futures[w] = "pending"
      /\ notifications' = [notifications EXCEPT ![n].futures[w] = "calling"]
      /\ [ notification |-> n, to |-> w,
           member |-> notifications[n].tx_id ] \notin { r.req : r \in sent }
      /\ sent' = sent \cup { [ req |-> [ notification |-> n, to |-> w,
                                         member |-> notifications[n].tx_id ],
                                fate |-> "in_flight" ] }
      /\ UNCHANGED crashed

\* The call returns: with the worker's response, or with none.
NotifyCallReturns ==
  \E r \in sent, res \in BOOLEAN :
    LET n == r.req.notification
        w == r.req.to
        after == AfterCall(res)
    IN /\ ~crashed /\ r.fate = "in_flight"
       /\ sent' = (sent \ {r})
                    \cup { [r EXCEPT !.fate =
                              IF res THEN "answered" ELSE "no_response"] }
       /\ notifications' = [notifications EXCEPT ![n].futures[w] = after]
       /\ crashed' = (after = "check_failed")

(***************************************************************************)
(* The transaction engine and the version chain of a record.  Their code   *)
(* is not part of the sources at hand: the engine follows spec 4.2, the    *)
(* visibility rule and the writer spec 4.3, 5 and 7.                       *)
(***************************************************************************)
TransactionIds == 1..MaxTransactions

Labels == {1, 2}
Properties == {1}

\* The records of the store: one vertex, as in scenario 2 of spec 8.
Records == {"v"}

\* Vertex payload: a set of labels and the properties that are set.
Payloads == [ labels : SUBSET Labels, properties : SUBSET Properties ]

\* A version: creating and expiring stamps (expirer 0 if live) and payload.
Version(creator, creator_cmd, payload) ==
  [ creator |-> creator, creator_cmd |-> creator_cmd,
    expirer |-> 0, expirer_cmd |-> 0, payload |-> payload ]

NoTransaction == [ state |-> "none", snapshot |-> {}, command |-> 0 ]

\* active-set snapshot: the identifiers of the active transactions.
ActiveSet(txs) == { t \in TransactionIds : txs[t].state = "active" }

\* begin: a fresh identifier above all previous, the active set as snapshot.
Begin(txs, t) ==
  [txs EXCEPT ![t] = [ state |-> "active", snapshot |-> ActiveSet(txs),
                       command |-> 1 ]]

\* The stamp (x, cmd) has taken effect for transaction t: it is t's own,
\* of an earlier command, or of a transaction committed before t began.
CommittedVisible(txs, x, cmd, t) ==
  \/ x = t /\ cmd < txs[t].command
  \/ /\ x # t /\ x # 0
     /\ txs[x].state = "committed"
     /\ x \notin txs[t].snapshot
     /\ x < t

\* Spec 4.3: the version is visible to transaction t.
VisibleTo(txs, v, t) ==
  \/ /\ v.creator = t /\ v.creator_cmd < txs[t].command
     /\ (v.expirer # t \/ v.expirer_cmd >= txs[t].command)
  \/ /\ v.creator # t
     /\ CommittedVisible(txs, v.creator, v.creator_cmd, t)
     /\ ~ CommittedVisible(txs, v.expirer, v.expirer_cmd, t)

\* The position in the chain of the version visible to t (0: none).
Find(txs, chain, t) ==
  LET seen == { i \in 1..Len(chain) : VisibleTo(txs, chain[i], t) }
  IN IF seen = {} THEN 0 ELSE Max(seen)

\* The position of the version t created in its current command (0: none).
OwnVersion(txs, chain, t) ==
  LET own == { i \in 1..Len(chain) :
                 /\ chain[i].creator = t
                 /\ chain[i].creator_cmd = txs[t].command }
  IN IF own = {} THEN 0 ELSE Max(own)

\* Mutant: only an expirer that is still active stops the writer.
Write_OnlyActiveExpirer(txs, chain, t, payload) ==
  LET own == OwnVersion(txs, chain, t)
      old == Find(txs, chain, t)
      e == IF old = 0 THEN 0 ELSE chain[old].expirer
  IN CASE own # 0 ->
            [ error |-> "", chain |-> [chain EXCEPT ![own].payload = payload] ]
       [] own = 0 /\ old = 0 ->
            [ error |-> "update-deleted-error", chain |-> chain ]
       [] own = 0 /\ old # 0 /\ e \notin {0, t} /\ txs[e].state = "active" ->
            [ error |-> "serialization-error", chain |-> chain ]
       [] OTHER ->
            [ error |-> "",
              chain |-> Append([chain EXCEPT ![old].expirer = t,
                                             ![old].expirer_cmd =
                                               txs[t].command],
                               Version(t, txs[t].command, payload)) ]

\* The writer of spec 4.3.  The owner of the version created in this
\* command mutates it (spec 5); any other writer locates the version visible
\* to it and fails with serialization-error if that version was expired by
\* another transaction, still active (spec 4.3) or committed (spec 8,
\* scenario 2); otherwise it appends a version stamped (t, c) and marks the
\* prior one expired by (t, c).
Write(txs, chain, t, payload) ==
  LET own == OwnVersion(txs, chain, t)
      old == Find(txs, chain, t)
      e == IF old = 0 THEN 0 ELSE chain[old].expirer
  IN CASE own # 0 ->
            [ error |-> "", chain |-> [chain EXCEPT ![own].payload = payload] ]
       [] own = 0 /\ old = 0 ->
            [ error |-> "update-deleted-error", chain |-> chain ]
       [] own = 0 /\ old # 0 /\ e \notin {0, t}
            /\ txs[e].state \in {"active", "committed"} ->
            [ error |-> "serialization-error", chain |-> chain ]
       [] OTHER ->
            [ error |-> "",
              chain |-> Append([chain EXCEPT ![old].expirer = t,
                                             ![old].expirer_cmd =
                                               txs[t].command],
                               Version(t, txs[t].command, payload)) ]

\* The last call was not a write.
NoWrite == [ op |-> "none", tx |-> 0, record |-> "", error |-> "" ]

\* The store holds the record, created by transaction 1, which committed.
MvccInit ==
  /\ transactions = [ t \in TransactionIds |->
                        IF t = 1 THEN [ state |-> "committed",
                                        snapshot |-> {}, command |-> 1 ]
                        ELSE NoTransaction ]
  /\ version_lists = [ r \in Records |->
                         << Version(1, 1, [ labels |-> {},
                                            properties |-> {} ]) >> ]
  /\ m_last = NoWrite

EngineBegin ==
  \E t \in TransactionIds :
    /\ transactions[t].state = "none"
    /\ \A u \in TransactionIds : u < t => transactions[u].state # "none"
    /\ transactions' = Begin(transactions, t)
    /\ m_last' = NoWrite
    /\ UNCHANGED version_lists

EngineCommit ==
  \E t \in ActiveSet(transactions) :
    /\ transactions' = [transactions EXCEPT ![t].state = "committed"]
    /\ m_last' = NoWrite
    /\ UNCHANGED version_lists

EngineAbort ==
  \E t \in ActiveSet(transactions) :
    /\ transactions' = [transactions EXCEPT ![t].state = "aborted"]
    /\ m_last' = NoWrite
    /\ UNCHANGED version_lists

EngineAdvance ==
  \E t \in ActiveSet(transactions) :
    /\ transactions[t].command < MaxCommand
    /\ transactions' = [transactions EXCEPT ![t].command = @ + 1]
    /\ m_last' = NoWrite
    /\ UNCHANGED version_lists

\* A write of the record by an active transaction: an error aborts the
\* transaction (spec 7).
WriteOf(payloads) ==
  \E t \in ActiveSet(transactions), r \in Records, payload \in payloads :
    LET w == Write(transactions, version_lists[r], t, payload)
    IN /\ Len(w.chain) <= MaxVersions
       /\ version_lists' = [version_lists EXCEPT ![r] = w.chain]
       /\ transactions' =
            IF w.error = "" THEN transactions
            ELSE [transactions EXCEPT ![t].state = "aborted"]
       /\ m_last' = [ op |-> "write", tx |-> t, record |-> r,
                      error |-> w.error ]

(***************************************************************************)
(* LabelPropertyIndex, the label+property index of the graph store.  Its   *)
(* code is not part of the sources at hand, which hold its unit test: the  *)
(* operations follow the index lifecycle of spec 3 (absent, building,      *)
(* ready) and build-index of spec 4.4, under the names the test calls.     *)
(***************************************************************************)
\* LabelPropertyIndex::Key(label, property)
IndexKeys == Labels \X Properties

\* The vertices the index is updated with: a version of a version list,
\* with the labels and the property keys it holds.
IndexVertices ==
  UNION { { [ vlist |-> r, version |-> i,
              labels |-> version_lists[r][i].payload.labels,
              properties |-> version_lists[r][i].payload.properties ] :
              i \in 1..Len(version_lists[r]) } : r \in Records }

\* The entry of the index that refers to the vertex.
Entry(vertex) == << vertex.vlist, vertex.version >>

AbsentIndex == [ state |-> "absent", entries |-> {} ]

\* Mutant: a create for a key that has an index starts the index over.
CreateIndex_Rebuilds(idx, key) ==
  [ index |-> [idx EXCEPT ![key] = [ state |-> "building", entries |-> {} ]],
    result |-> idx[key].state = "absent" ]

\* CreateIndex(key): a new index is building and empty; "already exists"
\* is the result false.
CreateIndex(idx, key) ==
  IF idx[key].state = "absent"
  THEN [ index |-> [idx EXCEPT ![key] =
                      [ state |-> "building", entries |-> {} ]],
         result |-> TRUE ]
  ELSE [ index |-> idx, result |-> FALSE ]

\* IndexFinishedBuilding(key): the index of the key is ready.
IndexFinishedBuilding(idx, key) == [idx EXCEPT ![key].state = "ready"]

\* Mutant: an index exists from its creation on.
IndexExists_OnceCreated(idx, key) == idx[key].state # "absent"

\* IndexExists(key): the index can be used.
IndexExists(idx, key) == idx[key].state = "ready"

\* Count(key): the number of entries of a ready index; on any other the
\* process dies with a message.
IndexCount(idx, key) ==
  CASE idx[key].state = "absent" ->
         [ died |-> TRUE, message |-> "Index doesn't exist.", count |-> 0 ]
    [] idx[key].state = "building" ->
         [ died |-> TRUE, message |-> "Index not yet ready.", count |-> 0 ]
    [] idx[key].state = "ready" ->
         [ died |-> FALSE, message |-> "",
           count |-> Cardinality(idx[key].entries) ]

\* The vertex enters the index of the key, unless it is there: the index
\* is being built or ready and the vertex has the label and the property.
Insert(idx, k, vertex) ==
  IF /\ idx[k].state # "absent"
     /\ k[1] \in vertex.labels /\ k[2] \in vertex.properties
  THEN [idx[k] EXCEPT !.entries = @ \cup {Entry(vertex)}]
  ELSE idx[k]

\* UpdateOnLabelProperty(vlist, vertex): the vertex enters every index, being
\* built or ready, whose label and property it has.
UpdateOnLabelProperty(idx, vertex) ==
  [ k \in IndexKeys |-> Insert(idx, k, vertex) ]

\* Mutant: the label given is not compared with the label of the key.
UpdateOnLabel_AnyKey(idx, label, vertex) ==
  [ k \in IndexKeys |-> Insert(idx, k, vertex) ]

\* UpdateOnLabel(label, vlist, vertex): as above, for the keys of the label.
UpdateOnLabel(idx, label, vertex) ==
  [ k \in IndexKeys |-> IF k[1] = label THEN Insert(idx, k, vertex)
                                        ELSE idx[k] ]

\* UpdateOnProperty(property, vlist, vertex): for the keys of the property.
UpdateOnProperty(idx, property, vertex) ==
  [ k \in IndexKeys |-> IF k[2] = property THEN Insert(idx, k, vertex)
                                           ELSE idx[k] ]

\* The entries of the index in the order it is walked: version list by
\* version list, the versions of one list in the order of the chain.
RECURSIVE EntriesInOrder(_)
EntriesInOrder(entries) ==
  IF entries = {} THEN << >>
  ELSE LET r == CHOOSE r \in { e[1] : e \in entries } : TRUE
           first == CHOOSE e \in entries :
                      /\ e[1] = r
                      /\ \A f \in entries : f[1] = r => e[2] <= f[2]
       IN << first >> \o EntriesInOrder(entries \ {first})

\* The version of the list visible to t has the label and the property.
Matches(txs, lists, k, vlist, t) ==
  LET at == Find(txs, lists[vlist], t)
  IN /\ at # 0
     /\ k[1] \in lists[vlist][at].payload.labels
     /\ k[2] \in lists[vlist][at].payload.properties

\* Mutant: every entry of a matching version list is returned.
RECURSIVE GetVlistsLoop_KeepsDuplicates(_, _, _, _, _, _)
GetVlistsLoop_KeepsDuplicates(txs, lists, k, t, todo, prev) ==
  IF todo = << >> THEN << >>
  ELSE LET vlist == Head(todo)[1]
       IN (IF Matches(txs, lists, k, vlist, t)
           THEN << vlist >> ELSE << >>)
          \o GetVlistsLoop_KeepsDuplicates(txs, lists, k, t, Tail(todo),
                                           vlist)

\* The walk of GetVlists: an entry of the version list of the entry before
\* it is skipped, as is one whose visible version does not match the key.
RECURSIVE GetVlistsLoop(_, _, _, _, _, _)
GetVlistsLoop(txs, lists, k, t, todo, prev) ==
  IF todo = << >> THEN << >>
  ELSE LET vlist == Head(todo)[1]
       IN (IF vlist # prev /\ Matches(txs, lists, k, vlist, t)
           THEN << vlist >> ELSE << >>)
          \o GetVlistsLoop(txs, lists, k, t, Tail(todo), vlist)

\* GetVlists(key, t): the version lists of the index whose version visible
\* to t has the label and the property of the key, each once.
GetVlists(idx, txs, lists, k, t) ==
  GetVlistsLoop(txs, lists, k, t, EntriesInOrder(idx[k].entries), "")

\* LabelPropertyIndex index;
IndexInit ==
  /\ index = [ k \in IndexKeys |-> AbsentIndex ]
  /\ i_last = [ op |-> "none", key |-> << >>, result |-> << >> ]

CreateIndexCall ==
  \E key \in IndexKeys :
    LET r == CreateIndex(index, key)
    IN /\ index' = r.index
       /\ i_last' = [ op |-> "CreateIndex", key |-> key,
                      result |-> r.result ]

\* build-index declares the index built after the scan that populates it.
IndexFinishedBuildingCall ==
  \E key \in IndexKeys :
    /\ index[key].state = "building"
    /\ index' = IndexFinishedBuilding(index, key)
    /\ i_last' = [ op |-> "IndexFinishedBuilding", key |-> key,
                   result |-> << >> ]

IndexExistsCall ==
  \E key \in IndexKeys :
    /\ i_last' = [ op |-> "IndexExists", key |-> key,
                   result |-> IndexExists(index, key) ]
    /\ UNCHANGED index

\* A Count that dies does so in the process that called it (the test runs
\* it in a child process, EXPECT_DEATH): the index is as it was.
CountCall ==
  \E key \in IndexKeys :
    /\ i_last' = [ op |-> "Count", key |-> key,
                   result |-> IndexCount(index, key) ]
    /\ UNCHANGED index

UpdateOnLabelPropertyCall ==
  \E vertex \in IndexVertices :
    /\ index' = UpdateOnLabelProperty(index, vertex)
    /\ i_last' = [ op |-> "UpdateOnLabelProperty", key |-> << >>,
                   result |-> vertex ]

UpdateOnLabelCall ==
  \E label \in Labels, vertex \in IndexVertices :
    /\ index' = UpdateOnLabel(index, label, vertex)
    /\ i_last' = [ op |-> "UpdateOnLabel", key |-> label,
                   result |-> vertex ]

UpdateOnPropertyCall ==
  \E property \in Properties, vertex \in IndexVertices :
    /\ index' = UpdateOnProperty(index, property, vertex)
    /\ i_last' = [ op |-> "UpdateOnProperty", key |-> property,
                   result |-> vertex ]

\* GetVlists(key, t) on a ready index, by an active transaction.
GetVlistsCall ==
  \E key \in IndexKeys, t \in ActiveSet(transactions) :
    /\ IndexExists(index, key)
    /\ i_last' = [ op |-> "GetVlists", key |-> key,
                   result |-> [ tx |-> t,
                                vlists |-> GetVlists(index, transactions,
                                                     version_lists, key,
                                                     t) ] ]
    /\ UNCHANGED index

(***************************************************************************)
(* The durability flags of database/single_node/config.cpp.                *)
(***************************************************************************)
kInt32Max == 2147483647

\* DEFINE_VALIDATED_int32(snapshot_cycle_sec, 3600, ...)
DefaultSnapshotCycleSec == 3600

\* The least value the flag validator accepts.
kRangeLow == 1

\* "(min 60)", the least value the flag's help text names.
kDocumentedMin == 60

\* The int32 values a command line or SetCommandLineOption may give the
\* flag.
CycleValues ==
  (-1)..MaxCycleSec \cup { DefaultSnapshotCycleSec, kInt32Max, -kInt32Max }

\* FLAG_IN_RANGE(lo, hi): the validator of the flag.
FLAG_IN_RANGE(lo, hi, value) == lo <= value /\ value <= hi

\* The validator registered for snapshot_cycle_sec.
ValidateSnapshotCycleSec(value) == FLAG_IN_RANGE(kRangeLow, kInt32Max, value)

ConfigInit ==
  /\ FLAGS_snapshot_cycle_sec = DefaultSnapshotCycleSec
  /\ config = [ built |-> FALSE, snapshot_cycle_sec |-> 0 ]
  /\ f_last = [ tried |-> FALSE, value |-> 0, accepted |-> FALSE ]

\* The flag is given a value: gflags keeps it when the validator accepts it,
\* and keeps the old value otherwise.
SetFlag ==
  \E v \in CycleValues :
    LET ok == ValidateSnapshotCycleSec(v)
    IN /\ FLAGS_snapshot_cycle_sec' = IF ok THEN v ELSE FLAGS_snapshot_cycle_sec
       /\ f_last' = [ tried |-> TRUE, value |-> v, accepted |-> ok ]
       /\ UNCHANGED config

\* database::Config::Config()
NewConfig ==
  /\ config' = [ built |-> TRUE,
                 snapshot_cycle_sec |-> FLAGS_snapshot_cycle_sec ]
  /\ UNCHANGED <<FLAGS_snapshot_cycle_sec, f_last>>

(***************************************************************************)
(* query::Parameters                                                       *)
(***************************************************************************)
\* Token positions of stripped literals, and their values.
TokenPositions == {2, 5}
ParameterValues == {"a", "b"}

\* What may lie in the memory before and after the vector's elements.
GarbagePairs == { <<0, "garbage">> }

\* Parameters::Add(position, value)
Add(storage, position, value) == Append(storage, <<position, value>>)

\* Parameters::At(position): the outcomes of the call.  An index outside the
\* vector that passes the assertion is an out-of-bounds read of
\* storage_[position]: the call returns whatever lies there, or the process
\* dies of the access.
At(storage, position) ==
  IF ~(position < Len(storage))
  THEN { [ kind |-> "assert", pair |-> << >> ] }
  ELSE IF position >= 0
  THEN { [ kind |-> "returned", pair |-> storage[position + 1] ] }
  ELSE { [ kind |-> "returned", pair |-> g ] : g \in GarbagePairs }
         \cup { [ kind |-> "fault", pair |-> << >> ] }

ParametersInit ==
  /\ storage_ = << >>
  /\ p_last = [ called |-> FALSE, position |-> 0, size |-> 0,
                result |-> [ kind |-> "none", pair |-> << >> ] ]

ParametersAdd ==
  \E position \in TokenPositions, value \in ParameterValues :
    /\ Len(storage_) < MaxParams
    /\ storage_' = Add(storage_, position, value)
    /\ UNCHANGED p_last

ParametersAt ==
  \E position \in (-2)..(MaxParams + 1) :
    \E result \in At(storage_, position) :
      /\ p_last' = [ called |-> TRUE, position |-> position,
                     size |-> Len(storage_), result |-> result ]
      /\ UNCHANGED storage_

(***************************************************************************)
(* glue: Bolt values to the interpreter's and the storage's values.        *)
(* A value is [type, v]: v is a token for a scalar or a graph element, a   *)
(* sequence of values for a List, a function from keys to values for a     *)
(* Map.                                                                    *)
(***************************************************************************)
ScalarTypes == { "Null", "Bool", "Int", "Double", "String" }
GraphTypes == { "Vertex", "Edge", "UnboundedEdge", "Path" }

Value(type, v) == [ type |-> type, v |-> v ]

\* One value of each type that holds no other Bolt value, the empty list and
\* the empty map included.
BoltLeaves ==
  { Value("Null", ""), Value("Bool", "true"), Value("Int", "7"),
    Value("Double", "0.5"), Value("String", "s") }
    \cup { Value(t, "g") : t \in GraphTypes }
    \cup { Value("List", << >>), Value("Map", << >>) }

\* The values that stand beside a nested value in a list or a map.
BoltSiblings == { Value("Int", "7"), Value("Edge", "g") }

MapKeys == { "a", "b" }

RECURSIVE Depth(_)
Depth(value) ==
  CASE value.type = "List" ->
         1 + Max({0} \cup { Depth(value.v[i]) : i \in 1..Len(value.v) })
    [] value.type = "Map" ->
         1 + Max({0} \cup { Depth(value.v[k]) : k \in DOMAIN value.v })
    [] OTHER -> 0

Ok(value) == [ ok |-> TRUE, value |-> value ]
ValueException == [ ok |-> FALSE, value |-> "ValueException" ]

\* The loops over a list and over a map: a conversion that throws ends them.
ConvertedList(results) ==
  IF \E i \in 1..Len(results) : ~results[i].ok THEN ValueException
  ELSE Ok(Value("List", [ i \in 1..Len(results) |-> results[i].value ]))

ConvertedMap(results) ==
  IF \E k \in DOMAIN results : ~results[k].ok THEN ValueException
  ELSE Ok(Value("Map", [ k \in DOMAIN results |-> results[k].value ]))

\* Mutant: a map is converted without its values that cannot be.
RECURSIVE ToTypedValue_DropsFromMaps(_)
ToTypedValue_DropsFromMaps(value) ==
  CASE value.type \in ScalarTypes -> Ok(value)
    [] value.type = "List" ->
         ConvertedList([ i \in 1..Len(value.v) |->
                           ToTypedValue_DropsFromMaps(value.v[i]) ])
    [] value.type = "Map" ->
         LET results == [ k \in DOMAIN value.v |->
                            ToTypedValue_DropsFromMaps(value.v[k]) ]
             kept == { k \in DOMAIN results : results[k].ok }
         IN Ok(Value("Map", [ k \in kept |-> results[k].value ]))
    [] value.type \in GraphTypes -> ValueException

\* glue::ToTypedValue
RECURSIVE ToTypedValue(_)
ToTypedValue(value) ==
  CASE value.type \in ScalarTypes -> Ok(value)
    [] value.type = "List" ->
         ConvertedList([ i \in 1..Len(value.v) |-> ToTypedValue(value.v[i]) ])
    [] value.type = "Map" ->
         ConvertedMap([ k \in DOMAIN value.v |-> ToTypedValue(value.v[k]) ])
    [] value.type \in GraphTypes -> ValueException

\* glue::ToPropertyValue
RECURSIVE ToPropertyValue(_)
ToPropertyValue(value) ==
  CASE value.type \in ScalarTypes -> Ok(value)
    [] value.type = "List" ->
         ConvertedList([ i \in 1..Len(value.v) |->
                           ToPropertyValue(value.v[i]) ])
    [] value.type = "Map" ->
         ConvertedMap([ k \in DOMAIN value.v |->
                          ToPropertyValue(value.v[k]) ])
    [] value.type \in GraphTypes -> ValueException

\* Mutant: an Int is sent as a Double.
RECURSIVE ToBoltValue_IntAsDouble(_)
ToBoltValue_IntAsDouble(value) ==
  CASE value.type = "Null" -> Value("Null", "")
    [] value.type = "Bool" -> Value("Bool", value.v)
    [] value.type = "Int" -> Value("Double", value.v)
    [] value.type = "Double" -> Value("Double", value.v)
    [] value.type = "String" -> Value("String", value.v)
    [] value.type = "List" ->
         Value("List", [ i \in 1..Len(value.v) |->
                           ToBoltValue_IntAsDouble(value.v[i]) ])
    [] value.type = "Map" ->
         Value("Map", [ k \in DOMAIN value.v |->
                          ToBoltValue_IntAsDouble(value.v[k]) ])

\* glue::ToBoltValue(const PropertyValue &)
RECURSIVE ToBoltValue(_)
ToBoltValue(value) ==
  CASE value.type = "Null" -> Value("Null", "")
    [] value.type = "Bool" -> Value("Bool", value.v)
    [] value.type = "Int" -> Value("Int", value.v)
    [] value.type = "Double" -> Value("Double", value.v)
    [] value.type = "String" -> Value("String", value.v)
    [] value.type = "List" ->
         Value("List", [ i \in 1..Len(value.v) |-> ToBoltValue(value.v[i]) ])
    [] value.type = "Map" ->
         Value("Map", [ k \in DOMAIN value.v |-> ToBoltValue(value.v[k]) ])

NotConverted == [ done |-> FALSE, to |-> "none", result |-> Ok(Value("Null", "")) ]

GlueInit ==
  /\ bolt = Value("Null", "")
  /\ g_last = NotConverted

\* A client sends a value: a scalar, a graph element, an empty list or map,
BoltLeaf ==
  \E value \in BoltLeaves :
    /\ bolt' = value
    /\ g_last' = NotConverted

\* ... a list that holds the value, alone or beside another,
BoltIntoList ==
  \E list \in { << bolt >> }
                \cup { << bolt, x >> : x \in BoltSiblings }
                \cup { << x, bolt >> : x \in BoltSiblings } :
    /\ Depth(bolt) < MaxDepth
    /\ bolt' = Value("List", list)
    /\ g_last' = NotConverted

\* ... or a map that holds the value, alone or beside another.
BoltIntoMap ==
  \E k \in MapKeys :
    \E map \in { (k :> bolt) }
                 \cup { (k :> bolt) @@ (l :> x) :
                          l \in MapKeys \ {k}, x \in BoltSiblings } :
      /\ Depth(bolt) < MaxDepth
      /\ bolt' = Value("Map", map)
      /\ g_last' = NotConverted

ConvertToTypedValue ==
  /\ g_last' = [ done |-> TRUE, to |-> "TypedValue",
                 result |-> ToTypedValue(bolt) ]
  /\ UNCHANGED bolt

ConvertToPropertyValue ==
  /\ g_last' = [ done |-> TRUE, to |-> "PropertyValue",
                 result |-> ToPropertyValue(bolt) ]
  /\ UNCHANGED bolt

\* The property value the last conversion made is sent back as a Bolt
\* value.
ConvertToBoltValue ==
  /\ g_last.done /\ g_last.to = "PropertyValue" /\ g_last.result.ok
  /\ g_last' = [ done |-> TRUE, to |-> "Value",
                 result |-> Ok(ToBoltValue(g_last.result.value)) ]
  /\ UNCHANGED bolt

(***************************************************************************)
(* EdgeAccessor: the endpoints of an edge.                                 *)
(* An Edge record lies at an address of the store's memory and holds its   *)
(* members one after the other; a member's address is the record's plus    *)
(* the member's offset.                                                    *)
(***************************************************************************)
\* The addresses of the vertices an edge may start and end at.
VertexAddresses == {1, 2}

\* The members of an Edge record: the endpoints and the type.
EdgeMembers == << "from_", "to_", "edge_type_" >>

\* The offset of a member in the record, in members.
OffsetOf(member) ==
  CHOOSE i \in 1..Len(EdgeMembers) : EdgeMembers[i] = member

\* &record.member
AddressOfMember(record, member) == record.address + OffsetOf(member)

\* The Edge record the store makes for the n-th edge.
NewEdge(n, from_, to_) ==
  [ address |-> n * Len(EdgeMembers), from_ |-> from_, to_ |-> to_ ]

\* EdgeAccessor::is_cycle, on the record current() returns:
\* &current().to_ == &current().from_
is_cycle(current) ==
  AddressOfMember(current, "to_") = AddressOfMember(current, "from_")

NoCycleCall == [ called |-> FALSE, edge |-> 0, result |-> FALSE ]

EdgeInit ==
  /\ edge_records = << >>
  /\ e_last = NoCycleCall

\* create-edge(src, dst): an edge between two vertices, or from a vertex to
\* itself.
CreateEdge ==
  \E from_ \in VertexAddresses, to_ \in VertexAddresses :
    /\ Len(edge_records) < MaxEdges
    /\ edge_records' = Append(edge_records,
                              NewEdge(Len(edge_records) + 1, from_, to_))
    /\ e_last' = NoCycleCall

\* A call of is_cycle on the accessor of an edge.
IsCycleCall ==
  \E e \in 1..Len(edge_records) :
    /\ e_last' = [ called |-> TRUE, edge |-> e,
                   result |-> is_cycle(edge_records[e]) ]
    /\ UNCHANGED edge_records

(***************************************************************************)
(* Specifications.                                                         *)
(***************************************************************************)
Init ==
  /\ SlkInit /\ PullInit /\ RpcInit /\ ClientInit /\ NotifyInit /\ IndexInit
  /\ accumulated = {}
  /\ ConfigInit
  /\ ParametersInit
  /\ GlueInit
  /\ MvccInit
  /\ EdgeInit

\* Builder to Reader: one message is written, then read back.
NextSlk ==
  \/ Save /\ UNCHANGED not_slk_vars
  \/ Finalize /\ UNCHANGED not_slk_vars
  \/ ReaderOpen /\ UNCHANGED not_slk_vars
  \/ Load /\ UNCHANGED not_slk_vars
  \/ ReadFinalize /\ UNCHANGED not_slk_vars

\* A Reader over an incoming buffer.
NextReader ==
  \/ InputHeader(MaxReaderBuf) /\ UNCHANGED not_slk_vars
  \/ InputPayload(MaxReaderBuf) /\ UNCHANGED not_slk_vars
  \/ InputCut(MaxReaderBuf) /\ UNCHANGED not_slk_vars
  \/ ReaderOpen /\ UNCHANGED not_slk_vars
  \/ Load /\ UNCHANGED not_slk_vars
  \/ ReadFinalize /\ UNCHANGED not_slk_vars

\* The stream-complete check over an incoming buffer.
NextStream ==
  \/ InputHeader(MaxBuf) /\ UNCHANGED not_slk_vars
  \/ InputPayload(MaxBuf) /\ UNCHANGED not_slk_vars
  \/ InputCut(MaxBuf) /\ UNCHANGED not_slk_vars

\* The worker's remote pull server.
NextPull ==
  \/ RemotePullRpc({1}, {1}) /\ UNCHANGED not_pull_vars
  \/ DeleteVertex /\ UNCHANGED not_pull_vars

\* The requests of the accumulation's model: one key, one pull symbol.
AccumulateRequests ==
  [ tx_id : {1}, plan_id : {1}, tx_snapshot : { {} }, params : {1},
    symbols : { <<1>> },
    accumulate : BOOLEAN, batch_size : 0..MaxBatch ]

\* A remote pull, remembered when it asked to accumulate.
AccumulatingPull ==
  /\ RemotePullRpcOf(AccumulateRequests,
                     {"false", "SerializationError"}, FALSE)
  /\ accumulated' = IF response'.accumulate
                    THEN accumulated \cup {response'.key} ELSE accumulated

\* One ongoing produce, pulled with and without accumulation.
NextAccumulate ==
  \/ AccumulatingPull
       /\ UNCHANGED <<slk_vars, rpc_vars, client_vars, notify_vars, index_vars,
                      config_vars, param_vars, glue_vars, mvcc_vars,
                      edge_vars>>
  \/ DeleteVertex /\ UNCHANGED not_pull_vars

\* The requests of the cache's model: two plans of transaction 1, pulled as
\* the rows come; one plan of transaction 2, accumulated first; one frame a
\* request.
CacheRequests ==
  { r \in [ tx_id : TxIds, plan_id : PlanIds, tx_snapshot : { {} }, params : {1},
            symbols : { <<1>> }, accumulate : BOOLEAN, batch_size : {1} ] :
      /\ r.tx_id = 1 \/ r.plan_id = 1
      /\ r.accumulate <=> r.tx_id = 2 }

\* The worker's ongoing produces: remote pulls and the cache cleaner.
NextCache ==
  \/ RemotePullRpcOf(CacheRequests, {"false"}, TRUE) /\ UNCHANGED not_pull_vars
  \/ ClearCache /\ UNCHANGED not_pull_vars

\* The requests of the command advance's model: one plan per transaction;
\* the plan of transaction 1 is pulled a frame a request, that of
\* transaction 2 is only opened.
AdvanceRequests ==
  { r \in [ tx_id : TxIds, plan_id : {1}, tx_snapshot : { {} }, params : {1},
            symbols : { <<1>> }, accumulate : {FALSE}, batch_size : {0, 1} ] :
      r.batch_size = 1 <=> r.tx_id = 1 }

\* The worker's engine and caches: remote pulls, remote reads, and the
\* coordinator's command advances and their notifications.
NextAdvance ==
  \/ RemotePullRpcOf(AdvanceRequests, {"false"}, TRUE) /\ UNCHANGED not_pull_vars
  \/ CacheRemoteElement /\ UNCHANGED not_pull_vars
  \/ AdvanceCommand /\ UNCHANGED not_pull_vars
  \/ TransactionCommandAdvancedRpc /\ UNCHANGED not_pull_vars

\* The requests of the engine's model: two plans of transaction 1 and one of
\* transaction 2, any snapshot; the cursors are only opened.
EngineRequests ==
  { r \in [ tx_id : TxIds, plan_id : PlanIds, tx_snapshot : Snapshots, params : {1},
            symbols : { <<1>> }, accumulate : {FALSE}, batch_size : {0} ] :
      r.tx_id = 1 \/ r.plan_id = 1 }

\* The worker's engine: first and later remote pulls, command advances and
\* the cache cleaner.
NextEngine ==
  \/ RemotePullRpcOf(EngineRequests, {"false"}, TRUE) /\ UNCHANGED not_pull_vars
  \/ AdvanceCommand /\ UNCHANGED not_pull_vars
  \/ TransactionCommandAdvancedRpc /\ UNCHANGED not_pull_vars
  \/ ClearCache /\ UNCHANGED not_pull_vars

\* The parameters a request may carry (req.params), as tokens.
ParameterSets == {1, 2}

\* The requests of the produce's model: two plans of transaction 1 with any
\* snapshot; plan 1 is pulled with any parameters and pull symbols, at most
\* one frame a request, plan 2 is only opened.
ProduceRequests ==
  { r \in [ tx_id : {1}, plan_id : PlanIds, tx_snapshot : Snapshots,
            params : ParameterSets, symbols : SymbolLists,
            accumulate : {FALSE}, batch_size : {0, 1} ] :
      r.plan_id = 2 => r.batch_size = 0 /\ r.params = 1 /\ r.symbols = <<1>> }

\* First and later remote pulls of the plans of one transaction, and the
\* cache cleaner.
NextProduce ==
  \/ RemotePullRpcOf(ProduceRequests, {"false"}, TRUE)
       /\ UNCHANGED not_pull_vars
  \/ ClearCache /\ UNCHANGED not_pull_vars

\* Two RemotePull requests on the threads of the RPC server.
NextConcurrent ==
  \/ \E h \in Threads : HandlerReceive(h) /\ UNCHANGED not_rpc_vars
  \/ \E h \in Threads : HandlerGet(h) /\ UNCHANGED not_rpc_vars
  \/ \E h \in Threads : HandlerPull(h) /\ UNCHANGED not_rpc_vars
  \/ \E h \in Threads : HandlerReturn(h) /\ UNCHANGED not_rpc_vars

\* The coordinator processing remote pull responses.
NextClient ==
  \/ ClientRemotePull /\ UNCHANGED not_client_vars
  \/ ClientPurge /\ UNCHANGED not_client_vars

\* The coordinator processing responses that return elements again.
NextRecords ==
  \/ ClientRemotePullOf(VersionedData) /\ UNCHANGED not_client_vars
  \/ ClientPurge /\ UNCHANGED not_client_vars

\* The coordinator notifying the workers of command advances.
NextNotify ==
  \/ Notify /\ UNCHANGED not_notify_vars
  \/ NotifyCall /\ UNCHANGED not_notify_vars
  \/ NotifyCallReturns
       /\ UNCHANGED not_notify_vars

\* The payloads the vertex of the index takes: with the labels and the
\* property, with the first label only, or having lost label or property.
IndexPayloads ==
  { [ labels |-> {1, 2}, properties |-> {1} ],
    [ labels |-> {1}, properties |-> {1} ],
    [ labels |-> {}, properties |-> {1} ],
    [ labels |-> {1}, properties |-> {} ] }

\* The label+property index: created, populated, declared built, queried.
NextIndex ==
  \/ CreateIndexCall
       /\ UNCHANGED not_index_vars
  \/ IndexFinishedBuildingCall
       /\ UNCHANGED not_index_vars
  \/ IndexExistsCall
       /\ UNCHANGED not_index_vars
  \/ CountCall
       /\ UNCHANGED not_index_vars
  \/ UpdateOnLabelPropertyCall
       /\ UNCHANGED not_index_vars
  \/ UpdateOnLabelCall
       /\ UNCHANGED not_index_vars
  \/ UpdateOnPropertyCall
       /\ UNCHANGED not_index_vars
  \/ EngineBegin
       /\ UNCHANGED <<core_vars, hist_vars, config_vars, param_vars,
                      glue_vars>>
  \/ WriteOf(IndexPayloads)
       /\ UNCHANGED <<core_vars, hist_vars, config_vars, param_vars,
                      glue_vars>>

\* The flags are set and configurations are constructed from them.
NextConfig ==
  \/ SetFlag /\ UNCHANGED <<core_vars, hist_vars, param_vars, glue_vars,
                    mvcc_vars>>
  \/ NewConfig /\ UNCHANGED <<core_vars, hist_vars, param_vars, glue_vars,
                    mvcc_vars>>

\* Stripped literals are added to a Parameters and looked up by position.
NextParameters ==
  \/ ParametersAdd
       /\ UNCHANGED <<core_vars, hist_vars, config_vars, glue_vars,
                    mvcc_vars>>
  \/ ParametersAt
       /\ UNCHANGED <<core_vars, hist_vars, config_vars, glue_vars,
                    mvcc_vars>>

\* Bolt values arrive and are converted for the interpreter and the storage.
NextGlue ==
  \/ BoltLeaf /\ UNCHANGED <<core_vars, hist_vars, config_vars, param_vars,
                    mvcc_vars>>
  \/ BoltIntoList
       /\ UNCHANGED <<core_vars, hist_vars, config_vars, param_vars,
                    mvcc_vars>>
  \/ BoltIntoMap
       /\ UNCHANGED <<core_vars, hist_vars, config_vars, param_vars,
                    mvcc_vars>>
  \/ ConvertToTypedValue
       /\ UNCHANGED <<core_vars, hist_vars, config_vars, param_vars,
                    mvcc_vars>>
  \/ ConvertToPropertyValue
       /\ UNCHANGED <<core_vars, hist_vars, config_vars, param_vars,
                    mvcc_vars>>

\* Property values of Bolt values, sent back as Bolt values.
NextBolt ==
  \/ BoltLeaf
       /\ UNCHANGED <<core_vars, hist_vars, config_vars, param_vars,
                    mvcc_vars>>
  \/ BoltIntoList
       /\ UNCHANGED <<core_vars, hist_vars, config_vars, param_vars,
                    mvcc_vars>>
  \/ BoltIntoMap
       /\ UNCHANGED <<core_vars, hist_vars, config_vars, param_vars,
                    mvcc_vars>>
  \/ ConvertToPropertyValue
       /\ UNCHANGED <<core_vars, hist_vars, config_vars, param_vars,
                    mvcc_vars>>
  \/ ConvertToBoltValue
       /\ UNCHANGED <<core_vars, hist_vars, config_vars, param_vars,
                    mvcc_vars>>

\* Edges are created and asked whether they are cycles.
NextEdges ==
  \/ CreateEdge /\ UNCHANGED not_edge_vars
  \/ IsCycleCall /\ UNCHANGED not_edge_vars

\* The payloads of the vertex whose index is queried: with the label and
\* the property of the key, or having lost the label or the property.
VlistPayloads ==
  { [ labels |-> {1}, properties |-> {1} ],
    [ labels |-> {}, properties |-> {1} ],
    [ labels |-> {1}, properties |-> {} ] }

\* The transactions that write and read the vertex, after the one that
\* created it (the test: t, t2, t3).
VlistTransactions == {2, 3}

\* The one of them that writes the vertex (the test: t2).
VlistWriter == 2

\* The index of one key, ready, while transactions write the vertex, advance
\* and commit: updated with the versions and queried.
NextVlists ==
  \/ CreateIndexCall /\ i_last'.key = << 1, 1 >>
       /\ UNCHANGED not_index_vars
  \/ IndexFinishedBuildingCall
       /\ UNCHANGED not_index_vars
  \/ UpdateOnLabelPropertyCall
       /\ UNCHANGED not_index_vars
  \/ GetVlistsCall
       /\ UNCHANGED not_index_vars
  \/ EngineBegin /\ ActiveSet(transactions') \subseteq VlistTransactions
       /\ UNCHANGED <<core_vars, hist_vars, config_vars, param_vars,
                      glue_vars>>
  \/ EngineCommit
       /\ UNCHANGED <<core_vars, hist_vars, config_vars, param_vars,
                      glue_vars>>
  \/ EngineAdvance
       /\ UNCHANGED <<core_vars, hist_vars, config_vars, param_vars,
                      glue_vars>>
  \/ WriteOf(VlistPayloads) /\ m_last'.tx = VlistWriter
       /\ UNCHANGED <<core_vars, hist_vars, config_vars, param_vars,
                      glue_vars>>

\* The payload the writers of the first-writer-wins scenario set: v.prop.
PropertySet == { [ labels |-> {}, properties |-> {1} ] }

\* Transactions begin, write the record, advance, commit and abort.
NextMvcc ==
  \/ EngineBegin
       /\ UNCHANGED <<core_vars, hist_vars, config_vars, param_vars,
                      glue_vars>>
  \/ EngineCommit
       /\ UNCHANGED <<core_vars, hist_vars, config_vars, param_vars,
                      glue_vars>>
  \/ EngineAbort
       /\ UNCHANGED <<core_vars, hist_vars, config_vars, param_vars,
                      glue_vars>>
  \/ EngineAdvance
       /\ UNCHANGED <<core_vars, hist_vars, config_vars, param_vars,
                      glue_vars>>
  \/ WriteOf(PropertySet)
       /\ UNCHANGED <<core_vars, hist_vars, config_vars, param_vars,
                      glue_vars>>

Next == NextSlk

Spec == Init /\ [][Next]_vars
SpecReader == Init /\ [][NextReader]_vars
SpecStream == Init /\ [][NextStream]_vars
SpecPull == Init /\ [][NextPull]_vars
SpecCache == Init /\ [][NextCache]_vars
SpecAdvance == Init /\ [][NextAdvance]_vars
SpecEngine == Init /\ [][NextEngine]_vars
SpecProduce == Init /\ [][NextProduce]_vars
SpecConcurrent == Init /\ [][NextConcurrent]_vars
SpecClient == Init /\ [][NextClient]_vars
SpecRecords == Init /\ [][NextRecords]_vars
SpecNotify == Init /\ [][NextNotify]_vars
SpecIndex == Init /\ [][NextIndex]_vars
SpecAccumulate == Init /\ [][NextAccumulate]_vars
SpecConfig == Init /\ [][NextConfig]_vars
SpecParameters == Init /\ [][NextParameters]_vars
SpecGlue == Init /\ [][NextGlue]_vars
SpecBolt == Init /\ [][NextBolt]_vars
SpecEdges == Init /\ [][NextEdges]_vars
SpecMvcc == Init /\ [][NextMvcc]_vars
SpecVlists == Init /\ [][NextVlists]_vars

(***************************************************************************)
(* The segments of a buffer, read off the buffer itself: position p starts *)
(* a segment when p is 0 or a non-empty segment that lies inside the       *)
(* buffer ends exactly at p.                                               *)
(***************************************************************************)
SegmentStarts(data) ==
  LET n == Len(data)
      starts[p \in 0..n] ==
        \/ p = 0
        \/ \E q \in 0..(p - 1) :
             /\ q + SegmentSizeBytes <= n
             /\ DecodeSize(data, q) # 0
             /\ q + SegmentSizeBytes + DecodeSize(data, q) = p
             /\ starts[q]
  IN { p \in 0..n : starts[p] }

\* Where the chain of complete segments stops, and why.
StopPos(data) == Max(SegmentStarts(data))

StopKind(data) ==
  LET t == StopPos(data)
  IN IF t + SegmentSizeBytes > Len(data) THEN "header_missing"
     ELSE IF DecodeSize(data, t) = 0 THEN "zero_header"
     ELSE "payload_missing"

\* The payload bytes that precede a segment start p.
PayloadBefore(data, p) ==
  p - SegmentSizeBytes * Cardinality({ q \in SegmentStarts(data) : q < p })

\* The payload of the complete segments, in order.
PayloadOf(data) ==
  LET S == SegmentStarts(data) \ {StopPos(data)}
      inside(i) == \E q \in S :
                     /\ q + SegmentSizeBytes < i
                     /\ i <= q + SegmentSizeBytes + DecodeSize(data, q)
      idx == SelectSeq([ i \in 1..Len(data) |-> i ], inside)
  IN [ k \in 1..Len(idx) |-> data[idx[k]] ]

Terminators(b) == { i \in 1..Len(b.written) : ~b.written[i].have_more }

\* The calls of Builder::Finalize that returned.
FinalizeReturned(b) == b.finalize_calls - (IF b.aborted THEN 1 ELSE 0)

(***************************************************************************)
(* C1 - the framing round trip.                                            *)
(***************************************************************************)
\* buf, as the Builder wrote it, is a complete stream of the saved payload,
\* and a Reader over it (in its first pass: it has neither thrown nor been
\* finalized before) that has asked for no more than the payload has got
\* exactly those bytes and finalizes without error once it has them all.
RoundTrip ==
  /\ CheckStreamComplete(buf) = StreamInfo("COMPLETE", Len(buf), Len(saved))
  /\ (reader.open /\ ~r_last.disturbed_before) =>
       /\ (r_last.op = "Load"
            /\ r_last.loaded_before + r_last.size <= Len(saved)) =>
              /\ reader.err = "none"
              /\ loaded = SubSeq(saved, 1, r_last.loaded_before + r_last.size)
       /\ (r_last.op = "Finalize" /\ r_last.loaded_before = Len(saved)) =>
              reader.err = "none"

\* C1 as amended: for every NON-EMPTY byte sequence P saved in any series of
\* Save calls and finalized, the Reader reproduces P without error and
\* CheckStreamComplete returns COMPLETE with payload size |P| and total size
\* the output's length.
C1_RoundTripNonEmpty ==
  (builder.finalize_calls >= 1 /\ saved # <<>>) => RoundTrip

\* C1 as stated: the same for every byte sequence P, the empty one included.
C1_RoundTripAnyPayload ==
  builder.finalize_calls >= 1 => RoundTrip

\* A payload of more than one segment, saved, finalized, read back whole and
\* the Reader finalized.
C1_Witness ==
  /\ Len(saved) > kSegmentMaxDataSize /\ Len(builder.written) >= 2
  /\ reader.open /\ r_last.op = "Finalize" /\ ~r_last.disturbed_before
  /\ reader.err = "none"
  /\ loaded = saved

IsFinalizeStep == builder'.finalize_calls = builder.finalize_calls + 1

\* C3 as amended: Finalize emits the buffered segment and the zero-size
\* terminator whenever at least one payload byte is buffered; with none
\* buffered (nothing saved since construction or since the previous
\* Finalize) it fails its assertion and writes nothing.
C3_FinalizeEmitsWhenBuffered ==
  [][ IsFinalizeStep =>
        IF builder.pos > 0
        THEN /\ ~builder'.aborted
             /\ builder'.out = builder.out \o EncodeSize(builder.pos)
                                 \o builder.segment \o <<0, 0, 0, 0>>
        ELSE /\ builder'.aborted
             /\ builder'.out = builder.out ]_vars

\* C3 as stated: every call of Finalize emits a terminator.
C3_FinalizeAlwaysEmits ==
  Cardinality(Terminators(builder)) = builder.finalize_calls

\* A Finalize that emitted the terminator, then one with nothing buffered.
C3_Witness ==
  /\ builder.finalize_calls = 2 /\ builder.aborted
  /\ Cardinality(Terminators(builder)) = 1

(***************************************************************************)
(* C4 - when the Reader fails.                                             *)
(***************************************************************************)
\* C4: for a Reader that has neither failed nor been finalized before, Load(size) succeeds exactly
\* when the payload asked for so far lies in complete segments, and then has
\* copied exactly that payload; otherwise it fails where the segments stop:
\* header past the end, zero header, or payload past the end.  Finalize
\* succeeds exactly when every payload byte of the segments was read and the
\* next header is zero; otherwise it fails because payload of the current
\* segment is unread, the next header is past the end, or it is non-zero.
C4_ReaderFailsExactlyOnFraming ==
  (reader.open /\ ~r_last.disturbed_before) =>
    LET avail == PayloadOf(buf)
        asked == r_last.loaded_before + r_last.size
        at_boundary == { p \in SegmentStarts(buf) :
                           PayloadBefore(buf, p) = r_last.loaded_before }
    IN /\ r_last.op = "Load" =>
            /\ reader.err = "none" <=> asked <= Len(avail)
            /\ reader.err = "none" => loaded = SubSeq(avail, 1, asked)
            /\ reader.err # "none" =>
                 /\ loaded = avail
                 /\ reader.err =
                      CASE StopKind(buf) = "header_missing" -> "size_missing"
                        [] StopKind(buf) = "zero_header" -> "empty_nonfinal"
                        [] StopKind(buf) = "payload_missing" -> "not_enough"
       /\ r_last.op = "Finalize" =>
            /\ reader.err = "none" <=>
                 (r_last.loaded_before = Len(avail)
                  /\ StopKind(buf) = "zero_header")
            /\ reader.err # "none" =>
                 reader.err =
                   IF at_boundary = {} THEN "leftover"
                   ELSE LET p == CHOOSE q \in at_boundary : TRUE
                        IN IF p + SegmentSizeBytes > Len(buf)
                           THEN "size_missing" ELSE "nonempty_final"
       /\ r_last.op = "none" => reader.err = "none"

\* A second Load that read the rest of the segment and then met the zero
\* header while it still needed payload.
C4_Witness ==
  /\ reader.open /\ ~r_last.disturbed_before
  /\ r_last.op = "Load" /\ reader.err = "empty_nonfinal"
  /\ Cardinality(SegmentStarts(buf)) >= 2
  /\ r_last.loaded_before > 0
  /\ Len(loaded) > r_last.loaded_before

(***************************************************************************)
(* C5, C6 - CheckStreamComplete.                                           *)
(***************************************************************************)
\* C5: CheckStreamComplete returns COMPLETE exactly when one or more
\* non-empty segments and then a zero header lie inside the buffer, with the
\* offset past that header and the sum of the segment sizes; INVALID exactly
\* when the buffer starts with a zero header; PARTIAL otherwise, with the
\* scan position (the start of the missing header, or the start of the
\* payload that does not fit) plus kSegmentMaxTotalSize.
C5_StatusCharacterised ==
  LET info == CheckStreamComplete(buf)
      t == StopPos(buf)
      terminated == StopKind(buf) = "zero_header"
  IN /\ info.status \in {"COMPLETE", "INVALID", "PARTIAL"}
     /\ info.status = "COMPLETE" <=> (terminated /\ t > 0)
     /\ info.status = "COMPLETE" =>
          /\ info.stream_size = t + SegmentSizeBytes
          /\ info.encoded_data_size = PayloadBefore(buf, t)
     /\ info.status = "INVALID" <=> (terminated /\ t = 0)
     /\ info.status = "PARTIAL" =>
          info.stream_size =
            (IF StopKind(buf) = "header_missing" THEN t
             ELSE t + SegmentSizeBytes) + kSegmentMaxTotalSize

\* Two segments and the terminator: a COMPLETE stream.
C5_Witness ==
  /\ CheckStreamComplete(buf).status = "COMPLETE"
  /\ Cardinality(SegmentStarts(buf)) = 3

\* The bytes of the scenario: one 4-byte segment, 3 of the 4 terminator bytes.
Scenario1 == <<4, 0, 0, 0, 97, 98, 99, 100, 0, 0, 0>>

\* C6: a PARTIAL result reports as payload size the sum of the sizes of the
\* segments that lie completely inside the buffer; for one complete 4-byte
\* segment followed by 3 of the 4 terminator bytes it is PARTIAL with 4.
C6_PartialPayload ==
  LET info == CheckStreamComplete(buf)
  IN /\ info.status = "PARTIAL" =>
          /\ info.encoded_data_size = PayloadBefore(buf, StopPos(buf))
          /\ info.encoded_data_size = Len(PayloadOf(buf))
     /\ (Len(buf) = Len(Scenario1)
          /\ \A i \in 1..Len(buf) :
               (i \in 5..8 \/ buf[i] = Scenario1[i])) =>
          /\ info.status = "PARTIAL" /\ info.encoded_data_size = 4
          /\ CheckStreamComplete(Scenario1) = info
     /\ CheckStreamComplete(Scenario1).status = "PARTIAL"
     /\ CheckStreamComplete(Scenario1).encoded_data_size = 4

\* The scenario's buffer (with the model's payload bytes).
C6_Witness ==
  /\ buf = <<4, 0, 0, 0, 7, 7, 7, 7, 0, 0, 0>>
  /\ CheckStreamComplete(buf).status = "PARTIAL"

(***************************************************************************)
(* The remote pull server's responses.                                     *)
(***************************************************************************)
Count(seq, x) == Cardinality({ i \in 1..Len(seq) : seq[i] = x })

\* The steps of the request's trace taken after Accumulate returned.
EmissionTrace(r) == SubSeq(r.trace, r.acc_len + 1, Len(r.trace))

\* The frames of the response that were popped from accumulation_: the k-th
\* frame belongs to the k-th "emit", and its source is the step before it.
BufferedFrames(r) ==
  { k \in 1..Len(r.frames) :
      \E i \in 2..Len(r.trace) :
        /\ r.trace[i] = "emit"
        /\ Count(SubSeq(r.trace, 1, i), "emit") = k
        /\ r.trace[i - 1] = "buffer" }

Visible(frame, del) ==
  \A j \in 1..Len(frame) : frame[j].type = "Vertex" => frame[j].id \notin del

(***************************************************************************)
(* C7 - terminal pull states are sticky.                                   *)
(***************************************************************************)
\* C7 as stated, for requests of batch size 1 or more alone: once a response
\* for the key carried a state other than CURSOR_IN_PROGRESS, every later
\* response for the key carries that state and no frames, and the cursor is
\* not pulled.
C7_TerminalStateSticky ==
  (response.valid /\ response.prior # "none" /\ response.batch_size > 0) =>
    /\ response.pull_state = response.prior
    /\ response.frames = <<>>
    /\ Count(response.trace, "cursor") = 0

(***************************************************************************)
(* C8 - the size and the shape of a response.                              *)
(***************************************************************************)
\* C8: a response to a request of batch size b holds at most b frames, the
\* cursor and the buffer together are advanced at most b times after the
\* accumulation, and every frame holds the values of one row of the cursor,
\* one per pull symbol of the ongoing produce, in pull-symbol order.
C8_BatchBound ==
  response.valid =>
    /\ Len(response.frames) <= response.batch_size
    /\ Count(EmissionTrace(response), "cursor")
         + Count(EmissionTrace(response), "buffer") <= response.batch_size
    /\ \A k \in 1..Len(response.frames) :
         /\ Len(response.frames[k]) = Len(response.pull_symbols)
         /\ \E row \in 1..MaxRows :
              \A j \in 1..Len(response.pull_symbols) :
                response.frames[k][j] = Row(row)[response.pull_symbols[j]]

\* A full batch of two-symbol frames.
C8_Witness ==
  /\ response.valid /\ response.batch_size >= 2
  /\ Len(response.frames) = response.batch_size
  /\ Len(response.pull_symbols) = 2

(***************************************************************************)
(* C9 - accumulation drains the cursor first.                              *)
(***************************************************************************)
\* C9: in a response to a request with accumulate = true the cursor has
\* reached a terminal state, every pull of the cursor precedes every emitted
\* frame, and when Accumulate ended in an error state the response carries
\* that state and no frames.
C9_AccumulateDrainsFirst ==
  (response.valid /\ response.accumulate) =>
    /\ response.acc_state \in TerminalStates
    /\ response.cursor_state \in TerminalStates
    /\ \A i, j \in 1..Len(response.trace) :
         (response.trace[i] = "emit" /\ response.trace[j] = "cursor") => j < i
    /\ Count(EmissionTrace(response), "cursor") = 0
    /\ response.acc_state # "CURSOR_EXHAUSTED" =>
         /\ response.pull_state = response.acc_state
         /\ response.frames = <<>>

\* An accumulating request that drained a cursor of two rows and emitted.
C9_Witness ==
  /\ response.valid /\ response.accumulate
  /\ Count(response.trace, "cursor") >= 3
  /\ Len(response.frames) >= 1

(***************************************************************************)
(* C10 - reconstruction of buffered frames.                                *)
(***************************************************************************)
ReconstructionFailed(r) == Count(r.trace, "reconstruct_failed") > 0

\* C10 as amended: when a buffered frame that is about to be returned has an
\* element that is no longer visible, the response has pull state
\* RECONSTRUCTION_ERROR and holds neither that frame nor a later one; the
\* frames emitted earlier in the same response stay in it.  Every buffered
\* frame a response does hold is visible.
C10_ReconstructionDropsTheFrame ==
  response.valid =>
    /\ \A k \in BufferedFrames(response) :
         Visible(response.frames[k], response.view_deleted)
    /\ ReconstructionFailed(response) =>
         /\ response.pull_state = "RECONSTRUCTION_ERROR"
         /\ response.trace[Len(response.trace)] = "reconstruct_failed"
         /\ Count(response.trace, "buffer") = Len(response.frames) + 1
         /\ Len(response.frames) < response.batch_size

\* C10 as stated: such a response contains no frame.
C10_ReconstructionErrorNoFrame ==
  (response.valid /\ ReconstructionFailed(response)) =>
    /\ response.pull_state = "RECONSTRUCTION_ERROR"
    /\ response.frames = <<>>

\* A response that emitted a buffered frame and then failed to reconstruct
\* the next one.
C10_Witness ==
  /\ response.valid /\ ReconstructionFailed(response)
  /\ Len(response.frames) >= 1

(***************************************************************************)
(* C11 - one ongoing produce per (transaction id, plan id).                *)
(***************************************************************************)
\* C11: an entry appears in the map only in the RemotePull for its key, and
\* is constructed there exactly when the key has no entry; a RemotePull for
\* a key that has an entry goes on with that entry's cursor (the rows it
\* has produced are kept and grow by the rows this request pulled, its pull
\* symbols stay), and no RemotePull touches the entry of another key.
C11_OneProducePerKey ==
  [][ LET k == w_last'.arg
          pull == w_last'.op = "RemotePull"
      IN /\ (DOMAIN ongoing_produces_' \ DOMAIN ongoing_produces_)
               \subseteq (IF pull THEN {k} ELSE {})
         /\ pull =>
              /\ k \in DOMAIN ongoing_produces_'
              /\ w_last'.constructed <=> k \notin DOMAIN ongoing_produces_
              /\ \A j \in DOMAIN ongoing_produces_ \ {k} :
                   /\ j \in DOMAIN ongoing_produces_'
                   /\ ongoing_produces_'[j] = ongoing_produces_[j]
              /\ k \in DOMAIN ongoing_produces_ =>
                   LET old == ongoing_produces_[k]
                       new == ongoing_produces_'[k]
                   IN /\ new.pull_symbols = old.pull_symbols
                      /\ old.produced <= new.produced
                      /\ new.produced <= old.produced
                                           + Count(response'.trace, "cursor")
                      /\ old.cursor_state = "CURSOR_EXHAUSTED" =>
                           /\ new.cursor_state = "CURSOR_EXHAUSTED"
                           /\ new.produced = old.produced ]_vars

\* A later RemotePull for a key went on with the cursor that had produced a
\* row already, while another key has an entry too.
C11_Witness ==
  /\ w_last.op = "RemotePull" /\ ~w_last.constructed
  /\ ongoing_produces_[w_last.arg].produced >= 2
  /\ Len(response.frames) = 1
  /\ Cardinality(DOMAIN ongoing_produces_) >= 2

(***************************************************************************)
(* C12 - the cache cleanup.                                                *)
(***************************************************************************)
\* C12: ClearTransactionalCache(oldest_active) leaves exactly the entries
\* whose transaction id is oldest_active or more, of every plan, as they
\* were, and removes every entry of a smaller transaction id.
C12_ClearRemovesOlderOnly ==
  [][ w_last'.op = "ClearTransactionalCache" =>
        LET oldest_active == w_last'.arg
        IN /\ DOMAIN ongoing_produces_' =
                { k \in DOMAIN ongoing_produces_ : k[1] >= oldest_active }
           /\ \A k \in DOMAIN ongoing_produces_' :
                ongoing_produces_'[k] = ongoing_produces_[k]
           /\ w_last'.removed =
                { k \in DOMAIN ongoing_produces_ : k[1] < oldest_active }
      ]_vars

\* A cleanup removed both plans' entries of transaction 1 and left the entry
\* of transaction 2, which has a buffered frame.
C12_Witness ==
  /\ w_last.op = "ClearTransactionalCache" /\ w_last.arg = 2
  /\ w_last.removed = { <<1, 1>>, <<1, 2>> }
  /\ <<2, 1>> \in DOMAIN ongoing_produces_
  /\ ongoing_produces_[<<2, 1>>].accumulation # <<>>

(***************************************************************************)
(* C13 - the transaction-command-advanced request.                         *)
(***************************************************************************)
\* C13: handling a transaction-command-advanced request for T, the worker
\* first sets its copy of T's command id to the coordinator's (never
\* backwards), then empties the remote-data-manager cache of T, then
\* responds; the other transactions of the engine, the caches of the other
\* transactions and the ongoing produces are as they were.
C13_CommandAdvancedPurgesOnlyT ==
  [][ w_last'.op = "TransactionCommandAdvanced" =>
        LET T == w_last'.arg
        IN /\ w_last'.steps = << "UpdateCommand",
                                 "ClearCacheForSingleTransaction", "Res" >>
           /\ DOMAIN tx_engine_' = DOMAIN tx_engine_
           /\ T \in DOMAIN tx_engine_ =>
                /\ tx_engine_'[T].cid = master_command[T]
                /\ tx_engine_'[T].cid >= tx_engine_[T].cid
                /\ tx_engine_'[T].snapshot = tx_engine_[T].snapshot
           /\ \A u \in DOMAIN tx_engine_ \ {T} :
                tx_engine_'[u] = tx_engine_[u]
           /\ remote_data_manager'[T] = {}
           /\ w_last'.purged = remote_data_manager[T]
           /\ \A u \in TxIds \ {T} :
                remote_data_manager'[u] = remote_data_manager[u]
           /\ ongoing_produces_' = ongoing_produces_ ]_vars

\* The request for transaction 1 moved its command id on and purged its two
\* cached elements, while transaction 2 keeps a cached element and the
\* cursor of transaction 1 keeps the row it has produced.
C13_Witness ==
  /\ w_last.op = "TransactionCommandAdvanced" /\ w_last.arg = 1
  /\ w_last.purged = Gids
  /\ 1 \in DOMAIN tx_engine_ /\ tx_engine_[1].cid = MaxCommand
  /\ remote_data_manager[2] # {}
  /\ <<1, 1>> \in DOMAIN ongoing_produces_
  /\ ongoing_produces_[<<1, 1>>].produced >= 1

(***************************************************************************)
(* C16 - the first pull registers the transaction.                         *)
(***************************************************************************)
\* C16: on a worker, a RemotePull that constructs an OngoingProduce has the
\* request's transaction known to the engine by the time the cursor's
\* accessor is constructed, with the request's snapshot when the engine did
\* not know it; a transaction the engine knew keeps its stored snapshot and
\* command id, and no other transaction of the engine is touched.  A
\* RemotePull that finds its OngoingProduce leaves the engine as it is.
C16_FirstPullRegisters ==
  [][ (w_last'.op = "RemotePull" /\ db_type = "DISTRIBUTED_WORKER") =>
        LET t == w_last'.arg[1]
        IN /\ w_last'.constructed =>
                /\ t \in DOMAIN tx_engine_'
                /\ w_last'.dba_known
           /\ (w_last'.constructed /\ t \notin DOMAIN tx_engine_) =>
                tx_engine_'[t].snapshot = w_last'.snapshot
           /\ t \in DOMAIN tx_engine_ => tx_engine_' = tx_engine_
           /\ ~w_last'.constructed => tx_engine_' = tx_engine_
           /\ DOMAIN tx_engine_' \subseteq DOMAIN tx_engine_ \cup {t}
           /\ \A u \in DOMAIN tx_engine_ : tx_engine_'[u] = tx_engine_[u]
      ]_vars

\* The first pull of plan 2 of a transaction that plan 1 has registered,
\* with another snapshot than the stored one, which stays.
C16_Witness ==
  /\ w_last.op = "RemotePull" /\ w_last.constructed /\ w_last.dba_known
  /\ w_last.arg[2] = 2
  /\ <<w_last.arg[1], 1>> \in DOMAIN ongoing_produces_
  /\ tx_engine_[w_last.arg[1]].snapshot # w_last.snapshot

(***************************************************************************)
(* C14 - remote pulls of one key are serial.                               *)
(***************************************************************************)
\* The position of a thread in a sequence of threads (0 when absent).
PositionIn(seq, h) ==
  IF \E i \in 1..Len(seq) : seq[i] = h
  THEN CHOOSE i \in 1..Len(seq) : seq[i] = h
  ELSE 0

\* The thread is in the loop that pulls from the OngoingProduce of its key.
Advancing(h) == handlers[h].pc = "loop"

\* C14: two RemotePull handlers of the same key never hold and advance the
\* key's ongoing produce at the same time, and of two requests for a key the
\* earlier to arrive is the earlier to be answered.
C14_PullsOfAKeyAreSerial ==
  \A h1, h2 \in Threads :
    (h1 # h2 /\ handlers[h1].pc # "idle" /\ handlers[h2].pc # "idle"
       /\ handlers[h1].key = handlers[h2].key) =>
      /\ ~(Advancing(h1) /\ Advancing(h2))
      /\ (PositionIn(arrival, h1) < PositionIn(arrival, h2)
            /\ PositionIn(answered, h2) > 0) =>
           /\ PositionIn(answered, h1) > 0
           /\ PositionIn(answered, h1) < PositionIn(answered, h2)

(***************************************************************************)
(* C15 - errors of the cursor become pull states.                          *)
(***************************************************************************)
\* The pull state that stands for an error raised by the cursor.
StateOfError(e) ==
  CASE e = "SerializationError" -> "SERIALIZATION_ERROR"
    [] e = "LockTimeoutException" -> "LOCK_TIMEOUT_ERROR"
    [] e = "RecordDeletedError" -> "UPDATE_DELETED_ERROR"
    [] e = "ReconstructionException" -> "RECONSTRUCTION_ERROR"
    [] e = "RemoveAttachedVertexException" -> "UNABLE_TO_DELETE_VERTEX_ERROR"
    [] e = "QueryRuntimeException" -> "QUERY_ERROR"
    [] e = "HintedAbortError" -> "HINTED_ABORT_ERROR"

\* C15: every request gets a response, and when the cursor raised an error
\* while the request pulled it, the response carries the pull state of that
\* error, the pull that raised it is the request's last step and added no
\* frame (the response holds one frame per pull that succeeded), and the
\* ongoing produce keeps the state.  A failure to reconstruct a buffered frame
\* likewise ends the request with RECONSTRUCTION_ERROR and no frame for it.
C15_ErrorsBecomePullStates ==
  response.valid =>
    /\ response.pull_state \in TerminalStates \cup {"CURSOR_IN_PROGRESS"}
    /\ Len(response.frames) = Count(response.trace, "emit")
    /\ response.thrown \notin {"none", "false"} =>
         /\ response.pull_state = StateOfError(response.thrown)
         /\ response.cursor_state = StateOfError(response.thrown)
         /\ response.trace[Len(response.trace)] = "cursor"
    /\ ReconstructionFailed(response) =>
         /\ response.pull_state = "RECONSTRUCTION_ERROR"
         /\ response.cursor_state = "RECONSTRUCTION_ERROR"
         /\ response.trace[Len(response.trace)] = "reconstruct_failed"

\* A request of batch size 2 whose second pull of the cursor met a record
\* deleted by another transaction.
C15_Witness ==
  /\ response.valid /\ response.thrown = "RecordDeletedError"
  /\ ~response.accumulate
  /\ Len(response.frames) = 1
  /\ response.pull_state = "UPDATE_DELETED_ERROR"

(***************************************************************************)
(* C17 - the coordinator caches what a response returns.                   *)
(***************************************************************************)
\* C17: after the coordinator processed a response for transaction T, every
\* vertex and edge of the response, those of its paths included, has an
\* entry in T's cache under the gid of its global address; the frame slot of
\* an element holds the accessor of the element's global address over T's
\* accessor, and the frame slot of a path holds the path of such accessors,
\* vertex, edge, vertex, ... in the path's order.
C17_ReturnedElementsCached ==
  c_last.valid =>
    LET cache == coordinator_cache[c_last.tx]
        dba == [ transaction_id |-> c_last.tx ]
        data == c_last.data
        frame == c_last.frame
    IN /\ \A i \in 1..Len(data.vertices) :
            LET v == data.vertices[i]
            IN /\ v.global_address.gid \in DOMAIN cache.Vertex
               /\ v.element_in_frame # 0 =>
                    frame[v.element_in_frame]
                      = [ type |-> "Vertex", address |-> v.global_address,
                          dba |-> dba ]
       /\ \A i \in 1..Len(data.edges) :
            LET e == data.edges[i]
            IN /\ e.global_address.gid \in DOMAIN cache.Edge
               /\ e.element_in_frame # 0 =>
                    frame[e.element_in_frame]
                      = [ type |-> "Edge", address |-> e.global_address,
                          dba |-> dba ]
       /\ \A i \in 1..Len(data.paths) :
            LET p == data.paths[i]
                in_frame == frame[PathSlot]
            IN /\ \A j \in 1..Len(p.vertices) :
                    p.vertices[j].global_address.gid \in DOMAIN cache.Vertex
               /\ \A j \in 1..Len(p.edges) :
                    p.edges[j].global_address.gid \in DOMAIN cache.Edge
               /\ in_frame.type = "Path"
               /\ Len(in_frame.path) = Len(p.vertices) + Len(p.edges)
               /\ \A j \in 1..Len(p.vertices) :
                    in_frame.path[2 * j - 1]
                      = [ type |-> "Vertex",
                          address |-> p.vertices[j].global_address,
                          dba |-> dba ]
               /\ \A j \in 1..Len(p.edges) :
                    in_frame.path[2 * j]
                      = [ type |-> "Edge",
                          address |-> p.edges[j].global_address,
                          dba |-> dba ]

\* A response with a vertex and an edge in the frame and a path of one edge,
\* whose second vertex was neither cached before nor returned beside the path.
C17_Witness ==
  /\ c_last.valid
  /\ Len(c_last.data.vertices) = 1 /\ Len(c_last.data.edges) = 1
  /\ c_last.data.vertices[1].element_in_frame = VertexSlot
  /\ c_last.data.edges[1].element_in_frame = EdgeSlot
  /\ Len(c_last.data.paths) = 1 /\ Len(c_last.data.paths[1].edges) = 1
  /\ LET g == c_last.data.paths[1].vertices[2].global_address.gid
     IN /\ g \notin c_last.cached_before
        /\ g # c_last.data.paths[1].vertices[1].global_address.gid
        /\ g # c_last.data.vertices[1].global_address.gid
        /\ g \in DOMAIN coordinator_cache[c_last.tx].Vertex

(***************************************************************************)
(* C18 - notifying the workers of a command advance.                       *)
(***************************************************************************)
RequestsOf(n, w) ==
  { r \in sent : r.req.notification = n /\ r.req.to = w }

\* C18: a call of NotifyAllTransactionCommandAdvanced(T) returns one future
\* for each worker of the cluster (every worker id but the coordinator's);
\* each worker is sent one request, which carries T, and no request until
\* its task runs; a future is ready only when the worker has responded, and
\* a request that got no response fails the CHECK, which ends the process.
C18_NotifiesEveryWorker ==
  \A n \in 1..Len(notifications) :
    /\ DOMAIN notifications[n].futures = WorkerIds \ {MasterWorkerId}
    /\ \A w \in DOMAIN notifications[n].futures :
         LET f == notifications[n].futures[w]
         IN /\ Cardinality(RequestsOf(n, w)) = (IF f = "pending" THEN 0 ELSE 1)
            /\ \A r \in RequestsOf(n, w) :
                 /\ r.req.member = notifications[n].tx_id
                 /\ r.fate = "in_flight" <=> f = "calling"
                 /\ r.fate = "answered" <=> f = "ready"
                 /\ r.fate = "no_response" <=> f = "check_failed"
                 /\ r.fate = "no_response" => crashed

\* Two notifications: every worker has answered the first, and a request of
\* the second got no response.
C18_Witness ==
  /\ Len(notifications) >= 2
  /\ \A w \in DOMAIN notifications[1].futures :
       notifications[1].futures[w] = "ready"
  /\ \E w \in DOMAIN notifications[2].futures :
       notifications[2].futures[w] = "check_failed"
  /\ crashed

(***************************************************************************)
(* C19 - creating an index twice.                                          *)
(***************************************************************************)
\* C19: a CreateIndex for a key that has no index returns true and leaves
\* the key with an empty index in the building state, the other keys as they
\* were; a CreateIndex for a key that has an index, building or ready,
\* returns false and changes no index: neither its state nor its entries.
C19_CreateIndexIdempotent ==
  [][ i_last'.op = "CreateIndex" /\ i_last' # i_last =>
        LET key == i_last'.key
        IN IF index[key].state = "absent"
           THEN /\ i_last'.result = TRUE
                /\ index'[key] = [ state |-> "building", entries |-> {} ]
                /\ \A k \in IndexKeys \ {key} : index'[k] = index[k]
           ELSE /\ i_last'.result = FALSE
                /\ index' = index ]_vars

\* A later CreateIndex for a key whose index is ready and has an entry.
C19_Witness ==
  /\ i_last.op = "CreateIndex" /\ i_last.result = FALSE
  /\ index[i_last.key].state = "ready"
  /\ index[i_last.key].entries # {}

(***************************************************************************)
(* C20 - an index is used only when ready.                                 *)
(***************************************************************************)
\* The results of IndexExists and Count, which leave the index as it is.
C20_Results ==
  LET st == index[i_last.key].state
  IN /\ i_last.op = "IndexExists" => (i_last.result <=> st = "ready")
     /\ i_last.op = "Count" =>
          /\ st = "absent" =>
                /\ i_last.result.died
                /\ i_last.result.message = "Index doesn't exist."
          /\ st = "building" =>
                /\ i_last.result.died
                /\ i_last.result.message = "Index not yet ready."
          /\ st = "ready" =>
                /\ ~i_last.result.died
                /\ i_last.result.count = Cardinality(index[i_last.key].entries)

\* C20: for a key created and not yet finished building, IndexExists is
\* false and Count dies with "Index not yet ready."; for a key never created
\* Count dies with "Index doesn't exist."; once IndexFinishedBuilding was
\* called for the key, IndexExists is true, Count returns the number of
\* entries, and the key stays ready.
C20_UsableOnlyWhenReady ==
  /\ []C20_Results
  /\ [][ \A k \in IndexKeys :
           /\ index[k].state = "ready" => index'[k].state = "ready"
           /\ index'[k].state = "ready" /\ index[k].state # "ready" =>
                /\ index[k].state = "building"
                /\ i_last'.op = "IndexFinishedBuilding" /\ i_last'.key = k
     ]_vars

\* IndexExists on a key whose index is being built and has an entry, while
\* the index of another key is ready.
C20_Witness ==
  /\ i_last.op = "IndexExists" /\ i_last.result = FALSE
  /\ index[i_last.key].state = "building"
  /\ index[i_last.key].entries # {}
  /\ \E k \in IndexKeys : index[k].state = "ready"

(***************************************************************************)
(* C29 - an ongoing produce accumulates once.                              *)
(***************************************************************************)
\* C29: in a RemotePull with accumulate = true for a key whose ongoing
\* produce has accumulated before, the cursor is not pulled and Accumulate
\* takes no step; the frames of the response are the last buffered frames,
\* newest first, and the buffer after the request is the buffer before it
\* without the frames popped: nothing is added, doubled or reordered.
C29_AccumulatesOnce ==
  [][ (response'.valid /\ response'.accumulate /\ deleted' = deleted
         /\ response'.key \in accumulated) =>
        LET k == response'.key
            before == ongoing_produces_[k].accumulation
            after == ongoing_produces_'[k].accumulation
            n == Len(response'.frames)
        IN /\ Count(response'.trace, "cursor") = 0
           /\ response'.acc_len = 0
           /\ Len(after) <= Len(before)
           /\ after = SubSeq(before, 1, Len(after))
           /\ Len(before) - Len(after) \in {n, n + 1}
           /\ Len(before) - Len(after) = n + 1 =>
                ReconstructionFailed(response')
           /\ \A i \in 1..n :
                response'.frames[i] = before[Len(before) - i + 1]
      ]_vars

\* A second accumulating request on a buffer of two frames: one frame is
\* returned, the other is still buffered.
C29_Witness ==
  /\ response.valid /\ response.accumulate
  /\ response.key \in accumulated
  /\ response.buffered_before = 2
  /\ Len(response.frames) = 1
  /\ Len(ongoing_produces_[response.key].accumulation) = 1

(***************************************************************************)
(* C30 - the Reader's position after a rejected segment.                   *)
(***************************************************************************)
\* The Reader has stopped before the header of the segment that follows the
\* payload it has copied out.
AtRejectedHeader ==
  /\ reader.have = 0
  /\ reader.pos \in SegmentStarts(buf)
  /\ PayloadBefore(buf, reader.pos) = Len(loaded)

\* C30 as amended: when GetSegment has rejected a new segment because its
\* size header is missing or because it is empty or non-empty against the
\* expectation, the Reader's position is that of the segment's size header;
\* when it has rejected the segment because the buffer does not hold all of
\* its data, the position is past the size header, at the segment's data,
\* with no data counted as available.
C30_RejectedBeforeOrPastHeader ==
  (reader.open /\ ~r_last.disturbed_before) =>
    /\ reader.err \in { "size_missing", "empty_nonfinal", "nonempty_final" }
         => AtRejectedHeader
    /\ reader.err = "not_enough" =>
         /\ reader.have = 0
         /\ reader.pos - SegmentSizeBytes \in SegmentStarts(buf)
         /\ PayloadBefore(buf, reader.pos - SegmentSizeBytes) = Len(loaded)
         /\ reader.pos - SegmentSizeBytes = StopPos(buf)

\* A Load that copied a segment and then met a segment whose data the
\* buffer holds only in part.
C30_Witness ==
  /\ reader.open /\ ~r_last.disturbed_before
  /\ r_last.op = "Load" /\ reader.err = "not_enough"
  /\ Len(loaded) > r_last.loaded_before
  /\ reader.pos < Len(buf)

\* C30 as stated: in each of the four cases the Reader's position is that
\* of the segment's size header.
C30_RejectedSegmentRereadable ==
  (reader.open /\ ~r_last.disturbed_before
     /\ reader.err \in { "size_missing", "empty_nonfinal", "nonempty_final",
                         "not_enough" }) =>
    AtRejectedHeader

(***************************************************************************)
(* C23 - the least snapshot cycle.                                         *)
(***************************************************************************)
\* C23: the flag defaults to 3600, only values of 60 or more are accepted
\* for it, and no configuration has a snapshot cycle below 60 seconds.
C23_SnapshotCycleAtLeast60 ==
  /\ ~f_last.tried /\ ~config.built =>
       FLAGS_snapshot_cycle_sec = DefaultSnapshotCycleSec
  /\ f_last.tried /\ f_last.accepted => f_last.value >= kDocumentedMin
  /\ FLAGS_snapshot_cycle_sec >= kDocumentedMin
  /\ config.built => config.snapshot_cycle_sec >= kDocumentedMin

(***************************************************************************)
(* C25 - Parameters::At.                                                   *)
(***************************************************************************)
\* C25: At(position) returns the pair (token position, value) of the
\* position-th Add, counting from 0, when there has been one, and asserts
\* for every other position, the negative ones included.
C25_AtReturnsOrAsserts ==
  p_last.called =>
    IF 0 <= p_last.position /\ p_last.position < p_last.size
    THEN /\ p_last.result.kind = "returned"
         /\ p_last.result.pair = storage_[p_last.position + 1]
    ELSE p_last.result.kind = "assert"

(***************************************************************************)
(* C26 - Bolt values that cannot be converted.                             *)
(***************************************************************************)
\* A Vertex, Edge, UnboundedEdge or Path, at any depth of lists and maps.
RECURSIVE HoldsGraphElement(_)
HoldsGraphElement(value) ==
  \/ value.type \in GraphTypes
  \/ /\ value.type = "List"
     /\ \E i \in 1..Len(value.v) : HoldsGraphElement(value.v[i])
  \/ /\ value.type = "Map"
     /\ \E k \in DOMAIN value.v : HoldsGraphElement(value.v[k])

\* The converted value has the type tag of the Bolt value, its scalar, its
\* elements in their order, its keys, and so at every depth.
RECURSIVE Preserves(_, _)
Preserves(value, converted) ==
  /\ converted.type = value.type
  /\ value.type \in ScalarTypes => converted.v = value.v
  /\ value.type = "List" =>
       /\ Len(converted.v) = Len(value.v)
       /\ \A i \in 1..Len(value.v) : Preserves(value.v[i], converted.v[i])
  /\ value.type = "Map" =>
       /\ DOMAIN converted.v = DOMAIN value.v
       /\ \A k \in DOMAIN value.v : Preserves(value.v[k], converted.v[k])

\* C26: ToTypedValue and ToPropertyValue throw ValueException exactly for
\* the Bolt values that are or hold, at any depth of lists and maps, a
\* Vertex, Edge, UnboundedEdge or Path; for every other value they return a
\* value of the same type tag, list order and map keys.
C26_GraphElementsRejected ==
  g_last.done =>
    /\ ~g_last.result.ok <=> HoldsGraphElement(bolt)
    /\ ~g_last.result.ok => g_last.result = ValueException
    /\ g_last.result.ok => Preserves(bolt, g_last.result.value)

\* A map in a list, with a graph element in the map beside a scalar: the
\* conversion to a TypedValue has thrown.
C26_Witness ==
  /\ g_last.done /\ g_last.to = "TypedValue" /\ ~g_last.result.ok
  /\ bolt.type = "List" /\ Len(bolt.v) = 2
  /\ bolt.v[1].type = "Map" /\ DOMAIN bolt.v[1].v = MapKeys
  /\ bolt.v[1].v["a"].type = "String"
  /\ bolt.v[1].v["b"].type = "Edge"
  /\ bolt.v[2].type = "Int"

(***************************************************************************)
(* C24: first-writer-wins.                                                 *)
(***************************************************************************)
\* The transactions that wrote the record: the creators of its versions.
WritersOf(chain) == { chain[i].creator : i \in 1..Len(chain) }

\* t1 and t2 are concurrent: each began before the other ended, that is,
\* the one that began first was still active when the other began.
Concurrent(txs, t1, t2) ==
  /\ t1 # t2
  /\ txs[t1].state # "none" /\ txs[t2].state # "none"
  /\ \/ t1 \in txs[t2].snapshot
     \/ t2 \in txs[t1].snapshot

Returned(vlists) == { vlists[i] : i \in 1..Len(vlists) }

C32_StableUnderExtension ==
  [][ ( /\ Len(buf') > Len(buf)
        /\ SubSeq(buf', 1, Len(buf)) = buf
        /\ CheckStreamComplete(buf).status \in {"COMPLETE", "INVALID"} )
      => CheckStreamComplete(buf') = CheckStreamComplete(buf) ]_vars

\* A complete stream of two segments followed by further bytes.
C32_Witness ==
  /\ CheckStreamComplete(buf).status = "COMPLETE"
  /\ CheckStreamComplete(buf).encoded_data_size >= 2
  /\ CheckStreamComplete(buf).stream_size < Len(buf)

\* A Reader newly opened over the buffer.
OpenedReader == [NewReader EXCEPT !.open = TRUE]

\* C33: when CheckStreamComplete returns COMPLETE with total size t and
\* payload size n, a Reader over the buffer loads n bytes without throwing,
\* in one Load or in two, its Finalize then does not throw and leaves the
\* Reader at position t; and a Load of n + 1 bytes throws.
C33_ReaderAgreesWithCheck ==
  LET info == CheckStreamComplete(buf)
      n == info.encoded_data_size
      whole == ReaderLoad(OpenedReader, buf, n)
      final == ReaderFinalize(whole.r, buf)
      more == ReaderLoad(OpenedReader, buf, n + 1)
  IN info.status = "COMPLETE" =>
       /\ whole.r.err = "none" /\ Len(whole.out) = n
       /\ \A k \in 0..n :
            LET head == ReaderLoad(OpenedReader, buf, k)
                rest == ReaderLoad(head.r, buf, n - k)
            IN /\ head.r.err = "none" /\ rest.r.err = "none"
               /\ head.out \o rest.out = whole.out
               /\ rest.r = whole.r
       /\ final.err = "none" /\ final.pos = info.stream_size
       /\ final.have = 0
       /\ more.r.err # "none"

\* A complete stream of two segments, which a Load of the payload crosses.
C33_Witness ==
  /\ CheckStreamComplete(buf).status = "COMPLETE"
  /\ CheckStreamComplete(buf).stream_size = Len(buf)
  /\ ReaderLoad(OpenedReader, buf, 2).r.pos > 2 * SegmentSizeBytes

\* C34: the size hint of a PARTIAL result is greater than the size of the
\* buffer, whatever the buffer holds.
C34_HintExceedsBuffer ==
  LET info == CheckStreamComplete(buf)
  IN info.status = "PARTIAL" => info.stream_size > Len(buf)

(***************************************************************************)
(* C35: the frames buffered by accumulation leave last in, first out.      *)
(***************************************************************************)
\* The frame of the cursor's i-th row for the pull symbols.
FrameOfRow(pull_symbols, i) ==
  [ j \in 1..Len(pull_symbols) |-> Row(i)[pull_symbols[j]] ]

\* The frames of the rows from + 1 .. to, in the order of the cursor.
FramesOfRows(pull_symbols, from, to) ==
  [ i \in 1..(to - from) |-> FrameOfRow(pull_symbols, from + i) ]

\* C35: the buffer of an ongoing produce holds frames of consecutive rows in
\* the order the cursor produced them; a request without reconstruction
\* error returns, of the buffer as accumulation left it, the last frames,
\* the last produced first, and leaves the frames before them buffered: so
\* over the pulls every buffered frame is emitted once, none is lost or
\* doubled, in the reverse of the order of production.
C35_BufferedFramesReversed ==
  /\ [] (\A k \in DOMAIN ongoing_produces_ :
            LET op == ongoing_produces_[k]
                a == op.accumulation
            IN /\ Len(a) <= op.produced
               /\ \E from \in 0..(op.produced - Len(a)) :
                    a = FramesOfRows(op.pull_symbols, from, from + Len(a)))
  /\ [][ ( /\ response'.valid
            /\ deleted' = deleted
            /\ ~ReconstructionFailed(response') ) =>
           LET k == response'.key
               known == k \in DOMAIN ongoing_produces_
               before == IF known THEN ongoing_produces_[k].accumulation
                         ELSE << >>
               produced == IF known THEN ongoing_produces_[k].produced ELSE 0
               op == ongoing_produces_'[k]
               full == IF response'.accumulate
                       THEN before \o FramesOfRows(op.pull_symbols, produced,
                                                   op.produced)
                       ELSE before
               after == op.accumulation
               n == Len(response'.frames)
           IN full # << >> =>
                /\ Len(after) <= Len(full)
                /\ after = SubSeq(full, 1, Len(after))
                /\ Len(full) - Len(after) = n
                /\ \A i \in 1..n :
                     response'.frames[i] = full[Len(full) - i + 1]
         ]_vars

\* A response that returns the two buffered frames, the second row first.
C35_Witness ==
  /\ response.valid /\ ~response.accumulate
  /\ response.buffered_before = 2
  /\ Len(response.frames) = 2
  /\ response.frames[1] = FrameOfRow(response.pull_symbols, 2)
  /\ response.frames[2] = FrameOfRow(response.pull_symbols, 1)

(***************************************************************************)
(* C36: the pull state of a response against the number of its frames.     *)
(***************************************************************************)
\* C36: the response to a RemotePull request of batch size b > 0 that holds
\* b frames has the pull state CURSOR_IN_PROGRESS, and one that holds fewer
\* has a terminal state: CURSOR_EXHAUSTED or an error state.
C36_StateTellsFullBatch ==
  (response.valid /\ response.batch_size > 0) =>
    /\ Len(response.frames) = response.batch_size
         => response.pull_state = "CURSOR_IN_PROGRESS"
    /\ Len(response.frames) < response.batch_size
         => response.pull_state \in TerminalStates

\* A response short of its batch: one frame of two, the cursor exhausted.
C36_Witness ==
  /\ response.valid /\ response.batch_size = 2
  /\ Len(response.frames) = 1
  /\ response.pull_state = "CURSOR_EXHAUSTED"

(***************************************************************************)
(* C37: what an ongoing produce keeps of the requests for its key.         *)
(***************************************************************************)
\* The step is a RemotePull that constructed the ongoing produce of its key:
\* the produce has the parameters and the pull symbols of the request.
FirstRequestSets ==
  LET key == w_last'.arg
  IN (w_last'.op = "RemotePull" /\ w_last'.constructed) =>
       /\ key \notin DOMAIN ongoing_produces_
       /\ ongoing_produces_'[key].parameters = w_last'.params
       /\ ongoing_produces_'[key].pull_symbols = w_last'.symbols

\* The step is a RemotePull that found the ongoing produce of its key: the
\* parameters, the pull symbols and the engine's transaction stay, the cursor
\* goes on from its row, and the frames hold the symbols the produce had.
LaterRequestKeeps ==
  LET key == w_last'.arg
  IN (w_last'.op = "RemotePull" /\ ~w_last'.constructed) =>
       /\ key \in DOMAIN ongoing_produces_
       /\ ongoing_produces_'[key].parameters
            = ongoing_produces_[key].parameters
       /\ ongoing_produces_'[key].pull_symbols
            = ongoing_produces_[key].pull_symbols
       /\ tx_engine_' = tx_engine_
       /\ ongoing_produces_'[key].produced
            = ongoing_produces_[key].produced + Len(response'.frames)
       /\ response'.frames
            = FramesOfRows(ongoing_produces_[key].pull_symbols,
                           ongoing_produces_[key].produced,
                           ongoing_produces_'[key].produced)

\* C37 (as stated): the parameters, the pull symbols and the transaction
\* snapshot of an ongoing produce are those of the first RemotePull request
\* for its key, and a later request for the key changes none of them.
C37_FirstRequestOfKey ==
  [][ /\ FirstRequestSets
      /\ LaterRequestKeeps
      /\ (w_last'.op = "RemotePull" /\ w_last'.constructed) =>
            tx_engine_'[w_last'.arg[1]].snapshot = w_last'.snapshot ]_vars

\* C37 (amended): the parameters and the pull symbols of an ongoing produce
\* are those of the first RemotePull request for its key, its transaction
\* snapshot is that of the first request the worker got for the transaction,
\* and a later request for the key changes none of them.
C37_FirstRequestOfTransaction ==
  [][ /\ FirstRequestSets
      /\ LaterRequestKeeps
      /\ (w_last'.op = "RemotePull" /\ w_last'.constructed) =>
            LET tx_id == w_last'.arg[1]
            IN tx_engine_'[tx_id].snapshot
                 = IF tx_id \in DOMAIN tx_engine_
                   THEN tx_engine_[tx_id].snapshot
                   ELSE w_last'.snapshot ]_vars

\* A later request for a key answered with a frame, its parameters, pull
\* symbols and snapshot all different from those the produce has.
C37_Witness ==
  /\ w_last.op = "RemotePull" /\ ~w_last.constructed
  /\ w_last.arg \in DOMAIN ongoing_produces_
  /\ w_last.params # ongoing_produces_[w_last.arg].parameters
  /\ w_last.symbols # ongoing_produces_[w_last.arg].pull_symbols
  /\ w_last.snapshot # tx_engine_[w_last.arg[1]].snapshot
  /\ Len(response.frames) = 1

(***************************************************************************)
(* C38: the cached pair of an element that is returned again.              *)
(***************************************************************************)
\* The elements of a kind in the data of a response, in the order handled.
ReturnedOfKind(data, kind) ==
  IF kind = "Vertex" THEN data.vertices ELSE data.edges

\* The records of the first element of gid in a sequence of elements.
RECURSIVE FirstPair(_, _)
FirstPair(elements, gid) ==
  IF Head(elements).global_address.gid = gid
  THEN [ old |-> Head(elements).old_record, new |-> Head(elements).new_record ]
  ELSE FirstPair(Tail(elements), gid)

====
